---- MODULE Spec2Model ----
(***************************************************************************)
(* A model of the hierarchical index of simp-lee/tree: the generic         *)
(* Tree[T] (src/unnamed/part_000).  The Index is the pair of maps          *)
(* (nodes, children) guarded by one RWMutex; Load is the only operation    *)
(* that changes it.                                                        *)
(*                                                                         *)
(* A payload of type T is a record [ID, ParentID]: the two integers the    *)
(* caller's extractors read (hasIDField tells whether T names the first    *)
(* one ID).  Pointers to Node[T] are modelled by the                       *)
(* node's id: validateIDs rejects a duplicate id before Load touches the   *)
(* maps, so within one generation of the maps an id names one Node.        *)
(***************************************************************************)
EXTENDS Integers, Sequences, FiniteSets, TLC

\* Bounds of the model.
MaxID == 2        \* ids and parent ids offered to Load range up to MaxID
MaxLen == 3       \* a Load takes at most MaxLen items
MaxNodes == 3     \* the trees queried hold at most MaxNodes nodes
NumReaders == 2   \* goroutines that may be inside a query at once

(***************************************************************************)
(* Values                                                                  *)
(***************************************************************************)

\* The error values Load returns; "at" is the item position or node id the
\* message names (0 when the message names none).
Err(kind, at) == [kind |-> kind, at |-> at]
Nil == Err("nil", 0)
\* A run-time panic leaving Load (reflect on a payload without the field).
Panic == Err("panic", 0)

\* A Go map: a function on the set of its keys.
EmptyMap == [k \in {} |-> 0]
Put(m, k, v) == [x \in (DOMAIN m) \cup {k} |-> IF x = k THEN v ELSE m[x]]
\* Reading a map of slices at a missing key gives the nil slice.
Get(m, k) == IF k \in DOMAIN m THEN m[k] ELSE << >>

\* loadOptions: which extractors and comparator the caller passed, and the
\* shape of T the default comparator reflects on.
\*   idFunc       "ID" (func(c) int { return c.ID }), "FromTop"
\*                (func(c) int { return Top - c.ID }) or "nil" (not passed)
\*   parentIDFunc "ParentID" or "nil"
\*   sortFunc     "default" (WithSort not passed), "IDDesc" (a.ID > b.ID),
\*                "IDParity" (a.ID%2 < b.ID%2, a comparator with ties)
\*   hasIDField   whether T is a struct with an int field named ID
Options(id, parent, sort, hasID) ==
    [idFunc |-> id, parentIDFunc |-> parent, sortFunc |-> sort,
     hasIDField |-> hasID]
DefaultOptions == Options("ID", "ParentID", "default", TRUE)
\* Calls with both extractors: no comparator on either shape of T and
\* with either id extractor, or one of the two comparators (which never
\* reflect on T).
FullOptions ==
    {DefaultOptions, Options("ID", "ParentID", "default", FALSE),
     Options("FromTop", "ParentID", "default", TRUE),
     Options("ID", "ParentID", "IDDesc", TRUE),
     Options("ID", "ParentID", "IDParity", TRUE)}
LoadOptions ==
    FullOptions \cup {Options("nil", "ParentID", "default", TRUE),
                      Options("ID", "nil", "default", TRUE)}

\* The caller's extractors applied to a payload.
Top == MaxID + 1
idFunc(opts, item) == IF opts.idFunc = "FromTop" THEN Top - item.ID ELSE item.ID
parentIDFunc(item) == item.ParentID

(***************************************************************************)
(* validateIDs                                                             *)
(***************************************************************************)
RECURSIVE validateIDsLoop(_, _, _, _)
validateIDsLoop(items, opts, i, idSet) ==
    IF i > Len(items) THEN Nil
    ELSE LET id == idFunc(opts, items[i])
             parentID == parentIDFunc(items[i])
         IN  IF id <= 0 THEN Err("id_not_positive", i - 1)
             ELSE IF id \in idSet THEN Err("duplicate", id)
             ELSE IF parentID < 0 THEN Err("parent_negative", i - 1)
             ELSE validateIDsLoop(items, opts, i + 1, idSet \cup {id})

validateIDs(items, opts) ==
    IF Len(items) = 0 THEN Err("empty", 0)
    ELSE validateIDsLoop(items, opts, 1, {})

\* Load up to the point where it takes the lock: the options and the ids.
LoadPrecheck(items, opts) ==
    IF opts.idFunc = "nil" THEN Err("id_func_required", 0)
    ELSE IF opts.parentIDFunc = "nil" THEN Err("parent_id_func_required", 0)
    ELSE validateIDs(items, opts)

(***************************************************************************)
(* Load: the maps are replaced, filled, sorted, and only then validated    *)
(***************************************************************************)
NewNode(opts, item) ==
    [ID |-> idFunc(opts, item), ParentID |-> parentIDFunc(item), Data |-> item]

\* "Create nodes": the loop over items, starting from the two fresh maps.
RECURSIVE CreateNodes(_, _, _, _, _)
CreateNodes(items, opts, i, ns, cs) ==
    IF i > Len(items) THEN [nodes |-> ns, children |-> cs]
    ELSE LET node == NewNode(opts, items[i])
         IN  CreateNodes(items, opts, i + 1,
                 Put(ns, node.ID, node),
                 Put(cs, node.ParentID, Append(Get(cs, node.ParentID), node.ID)))

\* A Load that fills the map it finds instead of a fresh one.
KeptNodes(old) == old

\* The maps Load starts to fill: fresh ones ("Clear existing data").
ClearedNodes(old) == EmptyMap
ClearedChildren(old) == EmptyMap

\* Whether the comparator can be evaluated on payloads of this T.
SortFuncPanics(opts) == opts.sortFunc = "default" /\ ~opts.hasIDField

\* options.sortFunc(a, b) on two payloads.
sortFunc(opts, a, b) ==
    CASE opts.sortFunc = "default"  -> a.ID < b.ID
      [] opts.sortFunc = "IDDesc"   -> a.ID > b.ID
      [] opts.sortFunc = "IDParity" -> (a.ID % 2) < (b.ID % 2)

Swap(s, i, j) == [s EXCEPT ![i] = s[j], ![j] = s[i]]

\* sort.Slice on a slice of at most 12 elements is an insertion sort:
\*   for i := 1; i < n; i++ { for j := i; j > 0 && less(j, j-1); j-- { swap } }
RECURSIVE InsertionInner(_, _, _, _)
InsertionInner(ns, opts, s, j) ==
    IF j > 1 /\ sortFunc(opts, ns[s[j]].Data, ns[s[j - 1]].Data)
    THEN InsertionInner(ns, opts, Swap(s, j, j - 1), j - 1)
    ELSE s

RECURSIVE InsertionOuter(_, _, _, _)
InsertionOuter(ns, opts, s, i) ==
    IF i > Len(s) THEN s
    ELSE InsertionOuter(ns, opts, InsertionInner(ns, opts, s, i), i + 1)

\* A slice left in the order the items came in.
UnsortedSlice(ns, opts, s) == s

SortSlice(ns, opts, s) == InsertionOuter(ns, opts, s, 2)

\* "Sort children for each parent".
SortChildren(ns, opts, cs) == [p \in DOMAIN cs |-> SortSlice(ns, opts, cs[p])]

\* The comparator is called as soon as some slice has two elements.
SortCallsLess(cs) == \E p \in DOMAIN cs : Len(cs[p]) >= 2

(***************************************************************************)
(* validateTree, checkCircularRef                                          *)
(***************************************************************************)
RECURSIVE checkCircularRef(_, _, _)
checkCircularRef(ns, id, visited) ==
    IF id \in visited THEN Err("circular", id)
    ELSE IF ns[id].ParentID # 0
         THEN checkCircularRef(ns, ns[id].ParentID, visited \cup {id})
         ELSE Nil

\* The errors validateTree may return: it ranges over the map, whose order
\* Go leaves open, and returns the first error it meets.
validateTree(ns) ==
    LET dangling == {id \in DOMAIN ns :
                        ns[id].ParentID # 0 /\ ns[id].ParentID \notin DOMAIN ns}
        circular == {checkCircularRef(ns, id, {}) : id \in DOMAIN ns} \ {Nil}
    IN  IF dangling # {} THEN {Err("invalid_parent", id) : id \in dangling}
        ELSE IF circular # {} THEN circular
        ELSE {Nil}

(***************************************************************************)
(* Queries, as functions of the two maps                                   *)
(***************************************************************************)
\* (node, exists) as FindNode returns it; NoNode is the nil pointer.
NoNode == [ID |-> 0, ParentID |-> 0, Data |-> [ID |-> 0, ParentID |-> 0]]
NotFound == [found |-> FALSE, node |-> NoNode]
Found(node) == [found |-> TRUE, node |-> node]

FindNode(ns, id) == IF id \in DOMAIN ns THEN Found(ns[id]) ELSE NotFound

\* The node itself, returned as its own parent.
GetParentSelf(ns, id) == IF id \in DOMAIN ns THEN Found(ns[id]) ELSE NotFound

\* GetParent: (nil, false) for a missing node, else the lookup of ParentID.
GetParent(ns, id) ==
    IF id \notin DOMAIN ns THEN NotFound
    ELSE IF ns[id].ParentID \in DOMAIN ns THEN Found(ns[ns[id].ParentID])
    ELSE NotFound

\* GetParentID: (0, false) for a missing node, else (ParentID, true).
GetParentID(ns, id) ==
    IF id \notin DOMAIN ns THEN [id |-> 0, ok |-> FALSE]
    ELSE [id |-> ns[id].ParentID, ok |-> TRUE]

\* The slice of node pointers stored for id (nil for a missing key).
GetChildren(cs, id) == Get(cs, id)

\* The loop with each parent put in front of the ones found before it.
RECURSIVE GetAncestorsLoopPrepend(_, _, _, _)
GetAncestorsLoopPrepend(ns, currentID, ancestors, fuel) ==
    IF currentID \notin DOMAIN ns \/ ns[currentID].ParentID = 0
    THEN [val |-> ancestors, returns |-> TRUE]
    ELSE IF ns[currentID].ParentID \in DOMAIN ns
    THEN IF fuel = 0
         THEN [val |-> ancestors, returns |-> FALSE]
         ELSE GetAncestorsLoopPrepend(ns, ns[ns[currentID].ParentID].ID,
                  << ns[currentID].ParentID >> \o ancestors, fuel - 1)
    ELSE [val |-> ancestors, returns |-> TRUE]

\* The loop of GetAncestors.  "returns" is FALSE when the loop is still
\* running after fuel iterations; with fuel above the number of nodes it
\* has then revisited a node and never ends.
RECURSIVE GetAncestorsLoop(_, _, _, _)
GetAncestorsLoop(ns, currentID, ancestors, fuel) ==
    IF currentID \notin DOMAIN ns \/ ns[currentID].ParentID = 0
    THEN [val |-> ancestors, returns |-> TRUE]
    ELSE IF ns[currentID].ParentID \in DOMAIN ns
    THEN IF fuel = 0
         THEN [val |-> ancestors, returns |-> FALSE]
         ELSE GetAncestorsLoop(ns, ns[ns[currentID].ParentID].ID,
                  Append(ancestors, ns[currentID].ParentID), fuel - 1)
    ELSE [val |-> ancestors, returns |-> TRUE]

GetAncestors(ns, id, includeSelf) ==
    GetAncestorsLoop(ns, id,
        IF includeSelf /\ id \in DOMAIN ns THEN << id >> ELSE << >>,
        Cardinality(DOMAIN ns) + 1)

\* GetAncestorIDs: the ids of GetAncestors' nodes (a node pointer is its id).
GetAncestorIDs(ns, id, includeSelf) == GetAncestors(ns, id, includeSelf)

GetAncestorIDAtDepth(ns, id, depth, fromRoot) ==
    LET parentIDs == GetAncestorIDs(ns, id, FALSE)
    IN  [val |-> IF ~parentIDs.returns THEN 0
                 ELSE IF depth > Len(parentIDs.val) \/ depth <= 0
                         \/ Len(parentIDs.val) = 0
                 THEN 0
                 ELSE IF fromRoot THEN parentIDs.val[depth]
                 ELSE parentIDs.val[Len(parentIDs.val) - depth + 1],
         returns |-> parentIDs.returns]

\* The nodes below id down to maxDepth levels (0: all), each followed at
\* once by the nodes below it.
RECURSIVE PreOrderBelow(_, _, _)
RECURSIVE PreOrderEach(_, _, _, _)
PreOrderBelow(cs, id, maxDepth) == PreOrderEach(cs, Get(cs, id), 1, maxDepth)
PreOrderEach(cs, kids, i, maxDepth) ==
    IF i > Len(kids) THEN << >>
    ELSE << kids[i] >>
         \o (IF maxDepth = 1 THEN << >>
             ELSE PreOrderBelow(cs, kids[i],
                                IF maxDepth = 0 THEN 0 ELSE maxDepth - 1))
         \o PreOrderEach(cs, kids, i + 1, maxDepth)

\* A traversal that emits each child followed by its own descendants.
getDescendantsPreOrder(cs, id, currentDepth, maxDepth, fuel) ==
    [val |-> PreOrderBelow(cs, id, maxDepth), returns |-> TRUE]

\* A loop that never descends below the children.
ChildrenOnly(cs, kids, i, currentDepth, maxDepth, fuel, acc) == acc

\* A depth test that lets one level too many through.
DepthReachedLate(currentDepth, maxDepth) ==
    maxDepth > 0 /\ currentDepth > maxDepth

\* "if maxDepth > 0 && currentDepth >= maxDepth".
DepthReached(currentDepth, maxDepth) ==
    maxDepth > 0 /\ currentDepth >= maxDepth

\* getDescendantsRecursive.  "returns" is FALSE when the recursion is
\* deeper than fuel frames; with fuel above the number of nodes a node is
\* then below itself and the recursion never ends.
RECURSIVE getDescendantsRecursive(_, _, _, _, _)
RECURSIVE DescendantsOfEach(_, _, _, _, _, _, _)
getDescendantsRecursive(cs, id, currentDepth, maxDepth, fuel) ==
    IF DepthReached(currentDepth, maxDepth)
    THEN [val |-> << >>, returns |-> TRUE]
    ELSE LET kids == Get(cs, id)
         IN  IF Len(kids) = 0 THEN [val |-> << >>, returns |-> TRUE]
             ELSE IF fuel = 0 THEN [val |-> << >>, returns |-> FALSE]
             ELSE DescendantsOfEach(cs, kids, 1, currentDepth, maxDepth,
                                    fuel, [val |-> kids, returns |-> TRUE])

\* "Recursively get descendants for each child".
DescendantsOfEach(cs, kids, i, currentDepth, maxDepth, fuel, acc) ==
    IF i > Len(kids) \/ ~acc.returns THEN acc
    ELSE LET sub == getDescendantsRecursive(cs, kids[i], currentDepth + 1,
                                            maxDepth, fuel - 1)
         IN  DescendantsOfEach(cs, kids, i + 1, currentDepth, maxDepth, fuel,
                 [val |-> acc.val \o sub.val, returns |-> sub.returns])

GetDescendants(ns, cs, id, maxDepth) ==
    IF maxDepth < 0 THEN [val |-> << >>, returns |-> TRUE]
    ELSE getDescendantsRecursive(cs, id, 0, maxDepth,
                                 Cardinality(DOMAIN ns) + 1)

\* Siblings that are never filtered.
GetSiblingsUnfiltered(ns, cs, id, includeSelf) ==
    IF id \notin DOMAIN ns THEN << >> ELSE Get(cs, ns[id].ParentID)

GetSiblings(ns, cs, id, includeSelf) ==
    IF id \notin DOMAIN ns THEN << >>
    ELSE LET siblings == Get(cs, ns[id].ParentID)
             NotSelf(x) == x # id
         IN  IF ~includeSelf THEN SelectSeq(siblings, NotSelf) ELSE siblings

\* GetDescendantsIDs: the ids of GetDescendants' nodes.
GetDescendantsIDs(ns, cs, id, maxDepth) == GetDescendants(ns, cs, id, maxDepth)

(***************************************************************************)
(* ToTree.  A node of the nested result is a record with its Children and  *)
(* "live": whether it is the very Node the Index stores (the pointer Load  *)
(* put in t.nodes) or a Node allocated by the call.                        *)
(***************************************************************************)
\* The nil *Node[T].
NoTree ==
    [ID |-> 0, ParentID |-> 0, Data |-> NoNode.Data, Children |-> << >>,
     live |-> FALSE]

\* The stored Node itself; Load never sets its Children.
StoredNode(node) ==
    [ID |-> node.ID, ParentID |-> node.ParentID, Data |-> node.Data,
     Children |-> << >>, live |-> TRUE]

\* &Node[T]{ID, ParentID, Data, Children}.
CopiedNode(node, kids) ==
    [ID |-> node.ID, ParentID |-> node.ParentID, Data |-> node.Data,
     Children |-> kids, live |-> FALSE]

\* A copy whose Children are the stored nodes, not built further.
buildTreeShallow(ns, cs, id, fuel) ==
    [val |-> IF Len(Get(cs, id)) = 0 THEN StoredNode(ns[id])
             ELSE CopiedNode(ns[id],
                      [i \in 1..Len(Get(cs, id)) |-> StoredNode(ns[Get(cs, id)[i]])]),
     returns |-> TRUE]

\* buildTreeRecursive on the node with this id; "returns" as for the other
\* recursions.
RECURSIVE buildTreeRecursive(_, _, _, _)
buildTreeRecursive(ns, cs, id, fuel) ==
    LET kids == Get(cs, id)
    IN  IF Len(kids) = 0 THEN [val |-> StoredNode(ns[id]), returns |-> TRUE]
        ELSE IF fuel = 0 THEN [val |-> NoTree, returns |-> FALSE]
        ELSE LET built == [i \in 1..Len(kids) |->
                              buildTreeRecursive(ns, cs, kids[i], fuel - 1)]
             IN  [val |-> CopiedNode(ns[id],
                              [i \in 1..Len(kids) |-> built[i].val]),
                  returns |-> \A i \in 1..Len(kids) : built[i].returns]

ToTree(ns, cs, rootID) ==
    IF rootID \notin DOMAIN ns THEN [val |-> NoTree, returns |-> TRUE]
    ELSE buildTreeRecursive(ns, cs, rootID, Cardinality(DOMAIN ns) + 1)

(***************************************************************************)
(* FormatTreeDisplay.  Strings are strings; the three default icons, which *)
(* are not ASCII, are written "|" (vertical), "+ " (branch) and "L "       *)
(* (last), each as wide as the icon it stands for.  T is a struct with one *)
(* string field, Title, as the tests' TestCategory.                        *)
(***************************************************************************)
FormatOption(field, indent, icons) ==
    [DisplayField |-> field, Indent |-> indent, Icons |-> icons]

DefaultFormatOption == FormatOption("title", " ", << "|", "+ ", "L " >>)

\* The Title of a payload: "Root" on a root, "<id>" elsewhere.
Title(data) ==
    IF data.ParentID = 0 THEN "Root" ELSE "<" \o ToString(data.ID) \o ">"

\* reflect: the field named field of the payload, when it is a string.
DisplayValue(data, field) ==
    IF field = "Title" THEN [ok |-> TRUE, str |-> Title(data)]
    ELSE [ok |-> FALSE, str |-> ""]

\* "Apply default options if needed".
WithDefaults(opt) ==
    FormatOption(
        IF opt.DisplayField = "" THEN DefaultFormatOption.DisplayField
        ELSE opt.DisplayField,
        IF opt.Indent = "" THEN DefaultFormatOption.Indent ELSE opt.Indent,
        IF Len(opt.Icons) # 3 THEN DefaultFormatOption.Icons ELSE opt.Icons)

FormattedNode(id, displayName) == [ID |-> id, DisplayName |-> displayName]

\* A pad as wide below a last child as below the others.
PadAligned(opt, isLast, space) == IF isLast THEN " " ELSE opt.Icons[1]

\* pad: the vertical icon below a child that is not the last.
Pad(opt, isLast, space) ==
    IF isLast THEN "" ELSE IF space # "" THEN opt.Icons[1] ELSE ""

\* pre: the icon in front of the child's label.
Pre(opt, isLast) == IF isLast THEN opt.Icons[3] ELSE opt.Icons[2]

\* formatTreeRecursive; the entries appended to *result.
RECURSIVE formatTreeRecursive(_, _, _, _, _, _)
RECURSIVE FormatChildren(_, _, _, _, _, _, _)
formatTreeRecursive(ns, cs, nodeID, opt, space, fuel) ==
    IF nodeID \notin DOMAIN ns THEN [val |-> << >>, returns |-> TRUE]
    ELSE LET v == DisplayValue(ns[nodeID].Data, opt.DisplayField)
             head == IF space = "" /\ v.ok
                     THEN << FormattedNode(nodeID, v.str) >>
                     ELSE << >>
             space2 == IF space = "" THEN opt.Indent ELSE space
             kids == Get(cs, nodeID)
         IN  IF Len(kids) = 0 THEN [val |-> head, returns |-> TRUE]
             ELSE IF fuel = 0 THEN [val |-> head, returns |-> FALSE]
             ELSE FormatChildren(ns, cs, kids, 1, opt, space2,
                                 [val |-> head, returns |-> TRUE, fuel |-> fuel])

\* The loop over the children.
FormatChildren(ns, cs, kids, i, opt, space, acc) ==
    IF i > Len(kids) \/ ~acc.returns
    THEN [val |-> acc.val, returns |-> acc.returns]
    ELSE LET isLast == i = Len(kids)
             v == DisplayValue(ns[kids[i]].Data, opt.DisplayField)
             displayName == space \o Pre(opt, isLast)
                            \o (IF v.ok THEN v.str ELSE "")
             sub == formatTreeRecursive(ns, cs, kids[i], opt,
                        space \o Pad(opt, isLast, space) \o opt.Indent,
                        acc.fuel - 1)
         IN  FormatChildren(ns, cs, kids, i + 1, opt, space,
                 [val |-> Append(acc.val, FormattedNode(kids[i], displayName))
                          \o sub.val,
                  returns |-> sub.returns, fuel |-> acc.fuel])

FormatTreeDisplay(ns, cs, rootID, opt) ==
    formatTreeRecursive(ns, cs, rootID, WithDefaults(opt), "",
                        Cardinality(DOMAIN ns) + 1)

(***************************************************************************)
(* The map-based Tree of tree.go.  A record is a map[string]interface{}:   *)
(* a function on its keys, here id, parent_id, sort (an int) and title (a  *)
(* string).  The Tree is the record [nodes, cache, sortField, sortAsc];    *)
(* an operation that fills the cache returns the Tree it leaves with its   *)
(* result.  "iter" is the order in which this call's range loops meet the  *)
(* node map: Go leaves it open, so the callers below take every order.     *)
(***************************************************************************)
M_Title(id, parentID) ==
    IF parentID = 0 THEN "Root" ELSE "<" \o ToString(id) \o ">"

M_Item(id, parentID, sort) ==
    [id |-> id, parent_id |-> parentID, sort |-> sort,
     title |-> M_Title(id, parentID)]

\* Records of the generic Tree as the map-based Load takes them.
M_DataOf(items) ==
    [i \in 1..Len(items) |-> M_Item(items[i].ID, items[i].ParentID, 1)]

\* M_Item without one of its keys.
Without(item, key) == [k \in (DOMAIN item) \ {key} |-> item[k]]

RECURSIVE validateDataFormatLoop(_, _)
validateDataFormatLoop(data, i) ==
    IF i > Len(data) THEN Nil
    ELSE IF "id" \notin DOMAIN data[i] THEN Err("missing_id", i - 1)
    ELSE IF "parent_id" \notin DOMAIN data[i]
    THEN Err("missing_parent_id", i - 1)
    ELSE IF data[i].id <= 0 THEN Err("id_not_positive", i - 1)
    ELSE IF data[i].parent_id < 0 THEN Err("parent_negative", i - 1)
    ELSE validateDataFormatLoop(data, i + 1)

validateDataFormat(data) ==
    IF Len(data) = 0 THEN Err("empty", 0) ELSE validateDataFormatLoop(data, 1)

\* "Check for duplicate IDs".
RECURSIVE M_DuplicateID(_, _, _)
M_DuplicateID(data, i, idSet) ==
    IF i > Len(data) THEN Nil
    ELSE IF data[i].id \in idSet THEN Err("duplicate", data[i].id)
    ELSE M_DuplicateID(data, i + 1, idSet \cup {data[i].id})

\* "Create node and store other data".
M_Node(item) ==
    [ID |-> item.id, ParentID |-> item.parent_id,
     Data |-> Without(Without(item, "id"), "parent_id")]

\* "Convert raw data to nodes".
RECURSIVE M_CreateNodes(_, _, _)
M_CreateNodes(data, i, ns) ==
    IF i > Len(data) THEN ns
    ELSE M_CreateNodes(data, i + 1, Put(ns, data[i].id, M_Node(data[i])))

RECURSIVE M_checkCircularRef(_, _, _)
M_checkCircularRef(ns, id, visited) ==
    IF id \in visited THEN Err("circular", id)
    ELSE IF ns[id].ParentID # 0
         THEN M_checkCircularRef(ns, ns[id].ParentID, visited \cup {id})
         ELSE Nil

\* The errors validateTree may return, over the orders of its two loops.
M_validateTree(ns) ==
    LET dangling == {id \in DOMAIN ns :
                        ns[id].ParentID # 0 /\ ns[id].ParentID \notin DOMAIN ns}
        circular == {M_checkCircularRef(ns, id, {}) : id \in DOMAIN ns} \ {Nil}
    IN  IF dangling # {} THEN {Err("invalid_parent", id) : id \in dangling}
        ELSE IF circular # {} THEN circular
        ELSE {Nil}

\* A cache that Load leaves as it was.
M_KeptCache(old) == old

\* make(map[int][]*Node): the cache Load and SetSort start again.
M_ClearedCache(old) == EmptyMap

\* A Load that replaces the maps before it looks at the data.
M_LoadLocksFirst(t, data) ==
    LET cleared == [t EXCEPT !.nodes = EmptyMap, !.cache = EmptyMap]
    IN  IF validateDataFormat(data) # Nil
        THEN {[tree |-> cleared, err |-> validateDataFormat(data)]}
        ELSE IF M_DuplicateID(data, 1, {}) # Nil
        THEN {[tree |-> cleared, err |-> M_DuplicateID(data, 1, {})]}
        ELSE {[tree |-> [cleared EXCEPT
                            !.nodes = M_CreateNodes(data, 1, EmptyMap)],
               err |-> e] :
                 e \in M_validateTree(M_CreateNodes(data, 1, EmptyMap))}

\* Load(data) on the Tree t: every (Tree left, error returned).
M_Load(t, data) ==
    IF validateDataFormat(data) # Nil
    THEN {[tree |-> t, err |-> validateDataFormat(data)]}
    ELSE IF M_DuplicateID(data, 1, {}) # Nil
    THEN {[tree |-> [t EXCEPT !.nodes = EmptyMap,
                              !.cache = M_ClearedCache(t.cache)],
           err |-> M_DuplicateID(data, 1, {})]}
    ELSE LET ns == M_CreateNodes(data, 1, EmptyMap)
         IN  {[tree |-> [t EXCEPT !.nodes = ns,
                                  !.cache = M_ClearedCache(t.cache)],
               err |-> e] : e \in M_validateTree(ns)}

M_SetSort(t, field, ascending) ==
    [t EXCEPT !.sortField = field, !.sortAsc = ascending,
              !.cache = M_ClearedCache(t.cache)]

M_ClearCache(t) == [t EXCEPT !.cache = EmptyMap]

\* The less function getChildren hands to sort.Slice, on two nodes.  The
\* values of a field that both nodes have are ints.
M_less(t, a, b) ==
    LET result ==
            IF t.sortField = "id" THEN a.ID < b.ID
            ELSE IF t.sortField \notin DOMAIN a.Data
                    \/ t.sortField \notin DOMAIN b.Data
            THEN a.ID < b.ID
            ELSE a.Data[t.sortField] < b.Data[t.sortField]
    IN  IF ~t.sortAsc THEN ~result ELSE result

\* sort.Slice on at most 12 elements: the insertion sort.
RECURSIVE M_InsertionInner(_, _, _)
M_InsertionInner(t, s, j) ==
    IF j > 1 /\ M_less(t, t.nodes[s[j]], t.nodes[s[j - 1]])
    THEN M_InsertionInner(t, Swap(s, j, j - 1), j - 1)
    ELSE s

RECURSIVE M_InsertionOuter(_, _, _)
M_InsertionOuter(t, s, i) ==
    IF i > Len(s) THEN s
    ELSE M_InsertionOuter(t, M_InsertionInner(t, s, i), i + 1)

\* The orders a range over a map with the keys S can take.
RECURSIVE Orders(_)
Orders(S) ==
    IF S = {} THEN {<< >>}
    ELSE UNION {{<< x >> \o rest : rest \in Orders(S \ {x})} : x \in S}

\* getChildren: the cached slice, or the nodes with this parent as the
\* range met them, sorted and put in the cache.
M_getChildren(t, id, iter) ==
    IF id \in DOMAIN t.cache THEN [tree |-> t, val |-> t.cache[id]]
    ELSE LET HasParent(n) == t.nodes[n].ParentID = id
             children == M_InsertionOuter(t, SelectSeq(iter, HasParent), 2)
         IN  [tree |-> [t EXCEPT !.cache = Put(t.cache, id, children)],
              val |-> children]

\* GetChildren: the cache read under RLock, else getChildren under Lock.
M_GetChildren(t, id, iter) == M_getChildren(t, id, iter)

RECURSIVE M_getDescendantsRecursive(_, _, _, _, _)
RECURSIVE M_DescendantsOfEach(_, _, _, _, _, _, _)
M_getDescendantsRecursive(t, id, currentDepth, maxDepth, iter) ==
    IF currentDepth >= maxDepth THEN [tree |-> t, val |-> << >>]
    ELSE LET c == M_getChildren(t, id, iter)
         IN  IF Len(c.val) = 0 THEN [tree |-> c.tree, val |-> << >>]
             ELSE M_DescendantsOfEach(c.tree, c.val, 1, currentDepth, maxDepth,
                                      iter, c.val)

\* The loop over the children.
M_DescendantsOfEach(t, kids, i, currentDepth, maxDepth, iter, acc) ==
    IF i > Len(kids) THEN [tree |-> t, val |-> acc]
    ELSE LET sub == M_getDescendantsRecursive(t, kids[i], currentDepth + 1,
                                              maxDepth, iter)
         IN  M_DescendantsOfEach(sub.tree, kids, i + 1, currentDepth, maxDepth,
                                 iter, acc \o sub.val)

M_GetDescendants(t, id, maxDepth, iter) ==
    IF maxDepth < 0 THEN [tree |-> t, val |-> << >>]
    ELSE M_getDescendantsRecursive(t, id, 0, maxDepth, iter)

M_GetDescendantsIDs(t, id, maxDepth, iter) ==
    M_GetDescendants(t, id, maxDepth, iter)

M_GetChildrenIDs(t, id, iter) == M_GetChildren(t, id, iter)

M_GetSiblings(t, id, includeSelf, iter) ==
    IF id \notin DOMAIN t.nodes THEN [tree |-> t, val |-> << >>]
    ELSE LET c == M_getChildren(t, t.nodes[id].ParentID, iter)
             NotSelf(x) == x # id
         IN  [tree |-> c.tree,
              val |-> IF ~includeSelf THEN SelectSeq(c.val, NotSelf)
                      ELSE c.val]

M_GetSiblingsIDs(t, id, includeSelf, iter) ==
    M_GetSiblings(t, id, includeSelf, iter)

\* The loop of GetAncestors, as in the generic Tree.
RECURSIVE M_GetAncestorsLoop(_, _, _, _)
M_GetAncestorsLoop(ns, currentID, ancestors, fuel) ==
    IF currentID \notin DOMAIN ns \/ ns[currentID].ParentID = 0
    THEN [val |-> ancestors, returns |-> TRUE]
    ELSE IF ns[currentID].ParentID \in DOMAIN ns
    THEN IF fuel = 0
         THEN [val |-> ancestors, returns |-> FALSE]
         ELSE M_GetAncestorsLoop(ns, ns[ns[currentID].ParentID].ID,
                  Append(ancestors, ns[currentID].ParentID), fuel - 1)
    ELSE [val |-> ancestors, returns |-> TRUE]

M_GetAncestors(t, id, includeSelf) ==
    M_GetAncestorsLoop(t.nodes, id,
        IF includeSelf /\ id \in DOMAIN t.nodes THEN << id >> ELSE << >>,
        Cardinality(DOMAIN t.nodes) + 1)

M_GetAncestorIDs(t, id, includeSelf) == M_GetAncestors(t, id, includeSelf)

\* GetAll: the nodes whose Data has the value under the key, as the range
\* meets them.
M_GetAll(t, key, value, iter) ==
    LET Matches(n) == /\ key \in DOMAIN t.nodes[n].Data
                      /\ t.nodes[n].Data[key] = value
    IN  SelectSeq(iter, Matches)

\* buildTreeRecursive: the stored node itself for a leaf, else a new node
\* with the built children.
RECURSIVE M_buildTreeRecursive(_, _, _, _)
RECURSIVE M_BuildEach(_, _, _, _, _, _)
M_buildTreeRecursive(t, id, iter, fuel) ==
    LET c == M_getChildren(t, id, iter)
    IN  IF Len(c.val) = 0
        THEN [tree |-> c.tree, returns |-> TRUE,
              val |-> [ID |-> id, Children |-> << >>, live |-> TRUE]]
        ELSE IF fuel = 0
        THEN [tree |-> c.tree, returns |-> FALSE,
              val |-> [ID |-> 0, Children |-> << >>, live |-> FALSE]]
        ELSE LET built == M_BuildEach(c.tree, c.val, 1, iter, fuel - 1, << >>)
             IN  [tree |-> built.tree, returns |-> built.returns,
                  val |-> [ID |-> id, Children |-> built.val, live |-> FALSE]]

\* The loop over the children.
M_BuildEach(t, kids, i, iter, fuel, acc) ==
    IF i > Len(kids) THEN [tree |-> t, returns |-> TRUE, val |-> acc]
    ELSE LET sub == M_buildTreeRecursive(t, kids[i], iter, fuel)
         IN  IF ~sub.returns THEN sub
             ELSE M_BuildEach(sub.tree, kids, i + 1, iter, fuel,
                              Append(acc, sub.val))

M_ToTree(t, rootID, iter) ==
    IF rootID \notin DOMAIN t.nodes
    THEN [tree |-> t, returns |-> TRUE,
          val |-> [ID |-> 0, Children |-> << >>, live |-> FALSE]]
    ELSE M_buildTreeRecursive(t, rootID, iter, Cardinality(DOMAIN t.nodes) + 1)

\* child.Data[displayField].(string): title is the one string field.
M_DisplayValue(data, displayField) ==
    IF displayField \in DOMAIN data /\ displayField = "title"
    THEN [ok |-> TRUE, str |-> data[displayField]]
    ELSE [ok |-> FALSE, str |-> ""]

\* What FormatTreeDisplay is given besides rootID.
M_FormatArgs(displayField, indent, indentIcons) ==
    [displayField |-> displayField, indent |-> indent,
     indentIcons |-> indentIcons]

\* formatTreeRecursive; the entries appended to *formatted.
RECURSIVE M_formatTreeRecursive(_, _, _, _, _, _)
RECURSIVE M_FormatChildren(_, _, _, _, _, _, _, _)
M_formatTreeRecursive(t, rootID, a, space, iter, fuel) ==
    LET c == M_getChildren(t, rootID, iter)
    IN  IF Len(c.val) = 0
        THEN [tree |-> c.tree, returns |-> TRUE, val |-> << >>]
        ELSE IF fuel = 0
        THEN [tree |-> c.tree, returns |-> FALSE, val |-> << >>]
        ELSE M_FormatChildren(c.tree, c.val, 1, a, space, iter, fuel - 1, << >>)

\* The loop over the children.
M_FormatChildren(t, kids, i, a, space, iter, fuel, acc) ==
    IF i > Len(kids) THEN [tree |-> t, returns |-> TRUE, val |-> acc]
    ELSE LET isLast == i = Len(kids)
             pad == IF isLast THEN ""
                    ELSE IF space # "" THEN a.indentIcons[1] ELSE ""
             pre == IF isLast THEN a.indentIcons[3] ELSE a.indentIcons[2]
             v == M_DisplayValue(t.nodes[kids[i]].Data, a.displayField)
             displayName == (IF space # "" THEN space \o pre ELSE "")
                            \o (IF v.ok THEN v.str ELSE "")
             sub == M_formatTreeRecursive(t, kids[i], a,
                        space \o pad \o a.indent, iter, fuel)
         IN  IF ~sub.returns
             THEN [tree |-> sub.tree, returns |-> FALSE, val |-> acc]
             ELSE M_FormatChildren(sub.tree, kids, i + 1, a, space, iter, fuel,
                      Append(acc, FormattedNode(kids[i], displayName))
                      \o sub.val)

M_FormatTreeDisplay(t, rootID, a, iter) ==
    M_formatTreeRecursive(t, rootID,
        M_FormatArgs(
            IF a.displayField = "" THEN "title" ELSE a.displayField,
            IF a.indent = "" THEN " " ELSE a.indent,
            IF Len(a.indentIcons) # 3 THEN << "|", "+ ", "L " >>
            ELSE a.indentIcons),
        "", iter, Cardinality(DOMAIN t.nodes) + 1)

(***************************************************************************)
(* State                                                                   *)
(***************************************************************************)
VARIABLES
    nodes,      \* t.nodes: id -> Node
    children,   \* t.children: parent id -> slice of nodes (their ids)
    writer,     \* who holds the RWMutex exclusively: "none" or "Load"
    readers,    \* how many goroutines hold the RWMutex shared
    lpc,        \* where the goroutine calling Load is: "idle" (not in
                \* Load), "sort", "validate", "return"
    lopts,      \* the options of the Load in progress
    err,        \* what the last Load returned; NoCall before the first of
                \* the behaviour,
                \* Pending while one is running
    before,     \* the maps as they were when the running Load was called
    filled,     \* how the Load that last filled the maps ended: "never"
                \* (maps as New left them), "running", "nil", "error", "panic"
    input,      \* the arguments of the Load under study (SpecLoad)
    ret,        \* what the last query returned (SpecQuery, SpecMap)
    mtree,      \* the map-based Tree of tree.go: nodes, cache, sortField,
                \* sortAsc
    procs       \* the goroutines calling the Tree, each with its operation
                \* and the place it has reached in it (SpecLock)

vars == << nodes, children, writer, readers, lpc, lopts, err, before, filled,
          input, ret, mtree, procs >>

\* tree.go's New(): the map-based Tree with two empty maps, sorting by
\* "id", ascending; writer and readers are its embedded RWMutex.
MapNew ==
    [nodes |-> << >>, cache |-> << >>, sortField |-> "id", sortAsc |-> TRUE,
     writer |-> "none", readers |-> 0]

\* No goroutine has been started.
NoProcs == << >>

\* The map-based Tree is left as New() made it, and nobody calls it.
MapUnused == mtree = MapNew /\ procs = NoProcs

NoCall == Err("no_call", 0)
Pending == Err("pending", 0)
NoSnapshot == [nodes |-> EmptyMap, children |-> EmptyMap, filled |-> "never"]
NoInput == [items |-> << >>, opts |-> DefaultOptions]
NoRet == [op |-> "none"]

\* What Load is offered.
Item == [ID : 0..MaxID, ParentID : (-1)..MaxID]
Inputs == UNION {[1..n -> Item] : n \in 0..MaxLen}

\* New(): two empty maps, the mutex free.
New ==
    /\ nodes = EmptyMap
    /\ children = EmptyMap
    /\ writer = "none"
    /\ readers = 0
    /\ lpc = "idle"
    /\ lopts = DefaultOptions
    /\ err = NoCall
    /\ before = NoSnapshot
    /\ filled = "never"

Init == New /\ input = NoInput /\ ret = NoRet /\ MapUnused

(***************************************************************************)
(* Load, step by step.  Everything from t.Lock() to the deferred Unlock    *)
(* runs with the mutex held exclusively, so other goroutines can           *)
(* interleave only where the steps below are cut.                          *)
(***************************************************************************)

\* sync.RWMutex: Lock waits for the writer and every reader to leave,
\* RLock for the writer.
\* A read lock that does not wait for the writer.
RLockIgnoresWriter(w) == TRUE

CanLock(w, r) == w = "none" /\ r = 0
CanRLock(w) == w = "none"

\* Load returns e before t.Lock(): an extractor is missing or validateIDs
\* fails.  Nothing but the arguments decides e.
LoadReject(e) ==
    /\ lpc = "idle"
    /\ e # Nil
    /\ err' = e
    /\ UNCHANGED << mtree, procs, nodes, children, writer, readers, lpc, lopts, before, filled,
                    input, ret >>

\* t.Lock(), "Clear existing data", "Create nodes".
LoadBegin(items, opts) ==
    /\ lpc = "idle"
    /\ LoadPrecheck(items, opts) = Nil
    /\ CanLock(writer, readers)
    /\ writer' = "Load"
    /\ LET built == CreateNodes(items, opts, 1, ClearedNodes(nodes), ClearedChildren(children))
       IN  nodes' = built.nodes /\ children' = built.children
    /\ lpc' = "sort"
    /\ lopts' = opts
    /\ err' = Pending
    /\ before' = [nodes |-> nodes, children |-> children, filled |-> filled]
    /\ filled' = "running"
    /\ UNCHANGED << mtree, procs, readers, input, ret >>

\* "Sort children for each parent"; a comparator that panics unwinds Load
\* through the deferred Unlock.
LoadSort ==
    /\ lpc = "sort"
    /\ IF SortFuncPanics(lopts) /\ SortCallsLess(children)
       THEN /\ err' = Panic
            /\ writer' = "none"
            /\ lpc' = "idle"
            /\ filled' = "panic"
            /\ before' = NoSnapshot
            /\ UNCHANGED children
       ELSE /\ children' = SortChildren(nodes, lopts, children)
            /\ lpc' = "validate"
            /\ UNCHANGED << mtree, procs, err, writer, filled, before >>
    /\ UNCHANGED << mtree, procs, nodes, readers, lopts, input, ret >>

\* "return t.validateTree()" and the deferred t.Unlock().
LoadValidate ==
    /\ lpc = "validate"
    /\ \E e \in validateTree(nodes) : /\ err' = e
                                 /\ filled' = IF e = Nil THEN "nil" ELSE "error"
    /\ lpc' = "return"
    /\ UNCHANGED << mtree, procs, nodes, children, writer, readers, lopts, before, input, ret >>

\* The deferred t.mu.Unlock() as Load returns what validateTree gave.
LoadReturn ==
    /\ lpc = "return"
    /\ writer' = "none"
    /\ lpc' = "idle"
    /\ before' = NoSnapshot
    /\ UNCHANGED << mtree, procs, nodes, children, readers, lopts, err, filled, input, ret >>

\* A query's t.RLock() ... t.RUnlock().
QueryEnter ==
    /\ CanRLock(writer)
    /\ readers < NumReaders
    /\ readers' = readers + 1
    /\ UNCHANGED << mtree, procs, nodes, children, writer, lpc, lopts, err, before, filled,
                    input, ret >>

QueryExit ==
    /\ readers > 0
    /\ readers' = readers - 1
    /\ UNCHANGED << mtree, procs, nodes, children, writer, lpc, lopts, err, before, filled,
                    input, ret >>

\* The calls Load can be given, split by what its first part answers.
Calls == [items : Inputs, opts : LoadOptions]
RejectedWith == {LoadPrecheck(c.items, c.opts) : c \in Calls} \ {Nil}
AcceptedCalls == {c \in Calls : LoadPrecheck(c.items, c.opts) = Nil}

LoadAnyReject == \E e \in RejectedWith : LoadReject(e)
LoadAnyBegin == \E c \in AcceptedCalls : LoadBegin(c.items, c.opts)

\* Load run from t.Lock() to its return on maps (ns, cs): the maps it
\* leaves and what it returns.
LoadRun(items, opts, ns, cs) ==
    LET built == CreateNodes(items, opts, 1, ClearedNodes(ns), ClearedChildren(cs))
    IN  IF LoadPrecheck(items, opts) # Nil
        THEN {[nodes |-> ns, children |-> cs, err |-> LoadPrecheck(items, opts)]}
        ELSE IF SortFuncPanics(opts) /\ SortCallsLess(built.children)
        THEN {[nodes |-> built.nodes, children |-> built.children, err |-> Panic]}
        ELSE {[nodes |-> built.nodes,
               children |-> SortChildren(built.nodes, opts, built.children),
               err |-> e] : e \in validateTree(built.nodes)}

Next ==
    \/ LoadAnyReject
    \/ LoadAnyBegin
    \/ LoadSort
    \/ LoadValidate
    \/ LoadReturn
    \/ QueryEnter
    \/ QueryExit

Spec == Init /\ [][Next]_vars

(***************************************************************************)
(* SpecLoad: one call Load(input.items, input.opts), on a Tree that is     *)
(* fresh from New() or holds the chain 1 <- 2 <- ... from an earlier Load. *)
(***************************************************************************)
SeedItems == [i \in 1..MaxID |-> [ID |-> i, ParentID |-> i - 1]]
SeedTree == CHOOSE o \in LoadRun(SeedItems, DefaultOptions, EmptyMap, EmptyMap) : TRUE

Seeded ==
    /\ nodes = SeedTree.nodes
    /\ children = SeedTree.children
    /\ writer = "none"
    /\ readers = 0
    /\ lpc = "idle"
    /\ lopts = DefaultOptions
    /\ err = NoCall
    /\ before = NoSnapshot
    /\ filled = "nil"

InitLoad ==
    /\ New \/ Seeded
    /\ input \in [items : Inputs, opts : FullOptions]
    /\ ret = NoRet
    /\ MapUnused

LoadInputReject == LoadReject(LoadPrecheck(input.items, input.opts))
LoadInputBegin == LoadBegin(input.items, input.opts)

NextLoad ==
    \/ LoadInputReject
    \/ LoadInputBegin
    \/ LoadSort
    \/ LoadValidate
    \/ LoadReturn

SpecLoad == InitLoad /\ [][NextLoad]_vars

(***************************************************************************)
(* SpecMap: the map-based Tree under Load, SetSort, ClearCache and the     *)
(* queries that fill the cache.  Each critical section is one step (a      *)
(* GetChildren that finds the cache entry under RLock returns it, else it  *)
(* runs getChildren under Lock), so the behaviours are the interleavings   *)
(* of concurrent callers.  ret keeps what the last Load or GetChildren     *)
(* returned.                                                               *)
(***************************************************************************)
\* The values of the field sort: two, so that children tie or differ.
SortValues == {1, 2}

\* The ids GetChildren and the other queries are asked about: the virtual
\* root, every id a node may have, and one above them.
M_AskIDs == 0..Top

\* Well-formed records with distinct ids out of 1..MaxID, in id order; the
\* parents are any of 0..MaxID, so some of them dangle or close a cycle.
M_WellFormedData ==
    {[i \in 1..Cardinality(S) |->
         LET id == CHOOSE x \in S : Cardinality({y \in S : y <= x}) = i
         IN  M_Item(id, parent[id], sort[id])] :
        S \in (SUBSET (1..MaxID)) \ {{}},
        parent \in [1..MaxID -> 0..MaxID], sort \in [1..MaxID -> SortValues]}

\* Data that validateDataFormat or the duplicate check refuses.
M_MalformedData ==
    {<< >>,
     << M_Item(0, 0, 1) >>,
     << M_Item(1, -1, 1) >>,
     << M_Item(1, 0, 1), Without(M_Item(2, 1, 1), "id") >>,
     << Without(M_Item(1, 0, 1), "parent_id") >>,
     << M_Item(1, 0, 1), M_Item(1, 0, 2) >>}

M_Data == M_WellFormedData \cup M_MalformedData

\* The sort fields SetSort is given: "id", the int field "sort", and
\* "rank", which no record has.
SortFields == {"id", "sort", "rank"}

InitMap ==
    /\ New
    /\ input = NoInput
    /\ ret = NoRet
    /\ mtree = MapNew
    /\ procs = NoProcs

\* What a call on the map-based Tree returned.
M_Ret(op, id, val) == [op |-> op, id |-> id, val |-> val]

M_CallLoad ==
    \E data \in M_Data : \E o \in M_Load(mtree, data) :
        /\ mtree' = o.tree
        /\ ret' = M_Ret("Load", 0, o.err)
        /\ UNCHANGED << nodes, children, writer, readers, lpc, lopts, err,
                        before, filled, input, procs >>

M_CallSetSort ==
    \E field \in SortFields, ascending \in BOOLEAN :
        /\ mtree' = M_SetSort(mtree, field, ascending)
        /\ ret' = NoRet
        /\ UNCHANGED << nodes, children, writer, readers, lpc, lopts, err,
                        before, filled, input, procs >>

M_CallClearCache ==
    /\ mtree' = M_ClearCache(mtree)
    /\ UNCHANGED << nodes, children, writer, readers, lpc, lopts, err, before,
                    filled, input, ret, procs >>

M_CallGetChildren ==
    \E id \in M_AskIDs, iter \in Orders(DOMAIN mtree.nodes) :
        LET r == M_GetChildren(mtree, id, iter)
        IN  /\ mtree' = r.tree
            /\ ret' = M_Ret("GetChildren", id, r.val)
            /\ UNCHANGED << nodes, children, writer, readers, lpc, lopts, err,
                            before, filled, input, procs >>

\* The depths GetDescendants is asked for.
M_Depths == (-1)..MaxID

M_CallGetDescendants ==
    \E id \in M_AskIDs, maxDepth \in M_Depths,
       iter \in Orders(DOMAIN mtree.nodes) :
        /\ mtree' = M_GetDescendants(mtree, id, maxDepth, iter).tree
        /\ UNCHANGED << nodes, children, writer, readers, lpc, lopts, err,
                        before, filled, input, ret, procs >>

M_CallGetSiblings ==
    \E id \in M_AskIDs, includeSelf \in BOOLEAN,
       iter \in Orders(DOMAIN mtree.nodes) :
        /\ mtree' = M_GetSiblings(mtree, id, includeSelf, iter).tree
        /\ UNCHANGED << nodes, children, writer, readers, lpc, lopts, err,
                        before, filled, input, ret, procs >>

\* ToTree and FormatTreeDisplay recurse without a bound: on a cycle that a
\* refused Load left in the map the program ends in a stack overflow, so
\* the step exists only when the recursion returns.
M_CallToTree ==
    \E id \in M_AskIDs, iter \in Orders(DOMAIN mtree.nodes) :
        LET r == M_ToTree(mtree, id, iter)
        IN  /\ r.returns
            /\ mtree' = r.tree
            /\ UNCHANGED << nodes, children, writer, readers, lpc, lopts, err,
                            before, filled, input, ret, procs >>

M_DefaultFormat == M_FormatArgs("", "", << >>)

M_CallFormatTreeDisplay ==
    \E id \in M_AskIDs, iter \in Orders(DOMAIN mtree.nodes) :
        LET r == M_FormatTreeDisplay(mtree, id, M_DefaultFormat, iter)
        IN  /\ r.returns
            /\ mtree' = r.tree
            /\ UNCHANGED << nodes, children, writer, readers, lpc, lopts, err,
                            before, filled, input, ret, procs >>

NextMap ==
    \/ M_CallLoad
    \/ M_CallSetSort
    \/ M_CallClearCache
    \/ M_CallGetChildren
    \/ M_CallGetDescendants
    \/ M_CallGetSiblings
    \/ M_CallToTree
    \/ M_CallFormatTreeDisplay

SpecMap == InitMap /\ [][NextMap]_vars

(***************************************************************************)
(* SpecQuery: the queries, called on a Tree a successful Load has filled.  *)
(* Init ranges over every forest on at most MaxNodes of the ids            *)
(* 1..MaxNodes, loaded without comparator or with the descending one; a    *)
(* query holds the read lock from its first to its last statement, so it   *)
(* is one step that leaves its result in ret.                              *)
(***************************************************************************)
NodeIDs == 1..MaxNodes
\* Ids to ask about: 0, every id a node may have, and one no node has.
AskIDs == 0..(MaxNodes + 1)

\* The items with the ids of S and the parent ids parent gives, by id.
RECURSIVE ItemsOf(_, _)
ItemsOf(S, parent) ==
    IF S = {} THEN << >>
    ELSE LET m == CHOOSE x \in S : \A y \in S : y <= x
         IN  Append(ItemsOf(S \ {m}, parent), [ID |-> m, ParentID |-> parent[m]])

QueryInputs ==
    {ItemsOf(DOMAIN parent, parent) :
        parent \in UNION {[S -> 0..MaxNodes] : S \in (SUBSET NodeIDs) \ {{}}}}
QueryOptions == {DefaultOptions, Options("ID", "ParentID", "IDDesc", TRUE)}

\* What New() followed by Load(items, opts) leaves when Load returns nil.
LoadedTrees ==
    UNION {{[nodes |-> o.nodes, children |-> o.children, opts |-> opts] :
               o \in {r \in LoadRun(items, opts, EmptyMap, EmptyMap) :
                         r.err = Nil}} :
           items \in QueryInputs, opts \in QueryOptions}

\* The records of the README's Quick Start, loaded without comparator.
ExampleItems ==
    << [ID |-> 1, ParentID |-> 0], [ID |-> 2, ParentID |-> 1],
       [ID |-> 3, ParentID |-> 1], [ID |-> 4, ParentID |-> 2],
       [ID |-> 5, ParentID |-> 2], [ID |-> 6, ParentID |-> 3] >>
ExampleTrees ==
    {[nodes |-> o.nodes, children |-> o.children, opts |-> DefaultOptions] :
        o \in {r \in LoadRun(ExampleItems, DefaultOptions, EmptyMap, EmptyMap) :
                  r.err = Nil}}

InitQuery ==
    /\ \E t \in LoadedTrees \cup ExampleTrees :
          nodes = t.nodes /\ children = t.children /\ lopts = t.opts
    /\ writer = "none"
    /\ readers = 0
    /\ lpc = "idle"
    /\ err = Nil
    /\ before = NoSnapshot
    /\ filled = "nil"
    /\ input = NoInput
    /\ ret = NoRet
    /\ MapUnused

\* What a query returned: the call, and the ids of the nodes returned.
Ret(op, id, flag, res) ==
    [op |-> op, id |-> id, flag |-> flag, val |-> res.val,
     returns |-> res.returns]

CallGetAncestors(id, includeSelf) ==
    /\ CanRLock(writer)
    /\ ret' = Ret("GetAncestors", id, includeSelf,
                  GetAncestors(nodes, id, includeSelf))
    /\ UNCHANGED << mtree, procs, nodes, children, writer, readers, lpc, lopts, err, before,
                    filled, input >>

\* The lookups of one node and of one slice; each holds the shared lock.
CallFindNode(id) ==
    /\ CanRLock(writer)
    /\ ret' = Ret("FindNode", id, FALSE,
                  [val |-> FindNode(nodes, id), returns |-> TRUE])
    /\ UNCHANGED << mtree, procs, nodes, children, writer, readers, lpc, lopts, err, before,
                    filled, input >>

CallGetParent(id) ==
    /\ CanRLock(writer)
    /\ ret' = Ret("GetParent", id, FALSE,
                  [val |-> GetParent(nodes, id), returns |-> TRUE])
    /\ UNCHANGED << mtree, procs, nodes, children, writer, readers, lpc, lopts, err, before,
                    filled, input >>

CallGetParentID(id) ==
    /\ CanRLock(writer)
    /\ ret' = Ret("GetParentID", id, FALSE,
                  [val |-> GetParentID(nodes, id), returns |-> TRUE])
    /\ UNCHANGED << mtree, procs, nodes, children, writer, readers, lpc, lopts, err, before,
                    filled, input >>

CallGetChildren(id) ==
    /\ CanRLock(writer)
    /\ ret' = Ret("GetChildren", id, FALSE,
                  [val |-> GetChildren(children, id), returns |-> TRUE])
    /\ UNCHANGED << mtree, procs, nodes, children, writer, readers, lpc, lopts, err, before,
                    filled, input >>

\* What a query with a depth argument returned.
RetAt(op, id, depth, flag, res) ==
    [op |-> op, id |-> id, depth |-> depth, flag |-> flag, val |-> res.val,
     returns |-> res.returns]

\* The depth arguments offered: below, inside and above every chain.
Depths == (-1)..MaxNodes

CallGetAncestorIDAtDepth(id, depth, fromRoot) ==
    /\ CanRLock(writer)
    /\ ret' = RetAt("GetAncestorIDAtDepth", id, depth, fromRoot,
                    GetAncestorIDAtDepth(nodes, id, depth, fromRoot))
    /\ UNCHANGED << mtree, procs, nodes, children, writer, readers, lpc, lopts, err, before,
                    filled, input >>

CallGetDescendants(id, maxDepth) ==
    /\ CanRLock(writer)
    /\ ret' = RetAt("GetDescendants", id, maxDepth, FALSE,
                    GetDescendants(nodes, children, id, maxDepth))
    /\ UNCHANGED << mtree, procs, nodes, children, writer, readers, lpc, lopts, err, before,
                    filled, input >>

\* GetSiblings takes the exclusive lock.
CallGetSiblings(id, includeSelf) ==
    /\ CanLock(writer, readers)
    /\ ret' = Ret("GetSiblings", id, includeSelf,
                  [val |-> GetSiblings(nodes, children, id, includeSelf),
                   returns |-> TRUE])
    /\ UNCHANGED << mtree, procs, nodes, children, writer, readers, lpc, lopts, err, before,
                    filled, input >>

\* ToTree takes the exclusive lock.
CallToTree(rootID) ==
    /\ CanLock(writer, readers)
    /\ ret' = Ret("ToTree", rootID, FALSE, ToTree(nodes, children, rootID))
    /\ UNCHANGED << mtree, procs, nodes, children, writer, readers, lpc, lopts, err, before,
                    filled, input >>

\* The options offered to FormatTreeDisplay: the default icons and indent
\* with the field Title, the zero FormatOption (every default applies, the
\* field is then "title"), and icons and indent of the caller's own.
TitleFormatOption == FormatOption("Title", " ", << "|", "+ ", "L " >>)
FormatOptions ==
    {TitleFormatOption, FormatOption("", "", << >>),
     FormatOption("Title", "..", << "!", "#-", "%-" >>)}

\* What FormatTreeDisplay returned, with the options it was given.
RetFormat(rootID, opt, res) ==
    [op |-> "FormatTreeDisplay", id |-> rootID, opt |-> opt, val |-> res.val,
     returns |-> res.returns]

\* FormatTreeDisplay takes the exclusive lock.
CallFormatTreeDisplay(rootID, opt) ==
    /\ CanLock(writer, readers)
    /\ ret' = RetFormat(rootID, opt,
                        FormatTreeDisplay(nodes, children, rootID, opt))
    /\ UNCHANGED << mtree, procs, nodes, children, writer, readers, lpc, lopts, err, before,
                    filled, input >>

NextQuery ==
    \/ \E id \in AskIDs : CallFindNode(id)
    \/ \E id \in AskIDs : CallGetParent(id)
    \/ \E id \in AskIDs : CallGetParentID(id)
    \/ \E id \in AskIDs : CallGetChildren(id)
    \/ \E id \in AskIDs, flag \in BOOLEAN : CallGetAncestors(id, flag)
    \/ \E id \in AskIDs, opt \in FormatOptions : CallFormatTreeDisplay(id, opt)
    \/ \E id \in AskIDs : CallToTree(id)
    \/ \E id \in AskIDs, depth \in Depths : CallGetDescendants(id, depth)
    \/ \E id \in AskIDs, flag \in BOOLEAN : CallGetSiblings(id, flag)
    \/ \E id \in AskIDs, depth \in Depths, flag \in BOOLEAN :
          CallGetAncestorIDAtDepth(id, depth, flag)

SpecQuery == InitQuery /\ [][NextQuery]_vars

(***************************************************************************)
(* SpecLock: goroutines calling the two Trees.  A call is cut where it     *)
(* takes and where it releases the mutex; what it does in between happens  *)
(* as it releases, since nobody can look before.  A call whose loop or     *)
(* recursion never ends on the maps it finds stays where it is, holding    *)
(* the mutex.  procs[p] is the operation goroutine p is in ("M_" marks the *)
(* map-based Tree), its argument, and pc: "idle", "call" (entered, no lock *)
(* taken yet), "in" (holding the lock it took first), "miss" and "fill"    *)
(* (the map-based GetChildren after RUnlock, and holding the write lock).  *)
(***************************************************************************)
Procs == 1..NumReaders
IdleProc == [op |-> "none", arg |-> 0, pc |-> "idle"]

\* The node the queries are asked about.
LockID == 1

\* What Load is given: the chain, two nodes that are each other's parent,
\* and no records.
CycleItems == << [ID |-> 1, ParentID |-> 2], [ID |-> 2, ParentID |-> 1] >>
LockItems == {SeedItems, CycleItems, << >>}

\* The operations by the lock they take.
G_SharedOps ==
    {"FindNode", "GetParent", "GetChildren", "GetChildrenIDs", "GetAncestors",
     "GetAncestorIDAtDepth", "GetDescendants"}
G_ExclusiveOps == {"GetSiblings", "ToTree", "FormatTreeDisplay"}
M_SharedOps == {"M_GetAncestors", "M_GetChildren"}
M_ExclusiveOps ==
    {"M_SetSort", "M_ClearCache", "M_GetDescendants", "M_ToTree"}

InitLock ==
    /\ New
    /\ input = NoInput
    /\ ret = NoRet
    /\ mtree = MapNew
    /\ procs = [p \in Procs |-> IdleProc]

\* Goroutine p moves to pc, and to an operation if one is given.
At(p, pc) == [procs EXCEPT ![p].pc = pc]

Call(p) ==
    /\ procs[p].pc = "idle"
    /\ \/ \E op \in G_SharedOps \cup G_ExclusiveOps
                    \cup M_SharedOps \cup M_ExclusiveOps :
             procs' = [procs EXCEPT ![p] = [op |-> op, arg |-> LockID,
                                            pc |-> "call"]]
       \/ \E op \in {"Load", "M_Load"}, items \in LockItems :
             procs' = [procs EXCEPT ![p] = [op |-> op, arg |-> items,
                                            pc |-> "call"]]
    /\ UNCHANGED << nodes, children, writer, readers, lpc, lopts, err, before,
                    filled, input, ret, mtree >>

Return(p) == [procs EXCEPT ![p] = IdleProc]

\* Whether the query ends on the maps as they are.
G_Returns(op, id) ==
    CASE op \in {"GetAncestors", "GetAncestorIDAtDepth"} ->
             GetAncestors(nodes, id, FALSE).returns
      [] op = "GetDescendants" -> GetDescendants(nodes, children, id, 0).returns
      [] op = "ToTree" -> ToTree(nodes, children, id).returns
      [] op = "FormatTreeDisplay" ->
             FormatTreeDisplay(nodes, children, id, TitleFormatOption).returns
      [] OTHER -> TRUE

\* The generic Load returns before t.Lock().
G_Reject(p) ==
    /\ procs[p].pc = "call"
    /\ procs[p].op = "Load"
    /\ LoadPrecheck(procs[p].arg, DefaultOptions) # Nil
    /\ procs' = Return(p)
    /\ UNCHANGED << nodes, children, writer, readers, lpc, lopts, err, before,
                    filled, input, ret, mtree >>

\* t.Lock() of Load, GetSiblings, ToTree, FormatTreeDisplay.
G_Lock(p) ==
    /\ procs[p].pc = "call"
    /\ \/ procs[p].op \in G_ExclusiveOps
       \/ /\ procs[p].op = "Load"
          /\ LoadPrecheck(procs[p].arg, DefaultOptions) = Nil
    /\ CanLock(writer, readers)
    /\ writer' = procs[p].op
    /\ procs' = At(p, "in")
    /\ UNCHANGED << nodes, children, readers, lpc, lopts, err, before, filled,
                    input, ret, mtree >>

\* t.RLock() of the other queries.
G_RLock(p) ==
    /\ procs[p].pc = "call"
    /\ procs[p].op \in G_SharedOps
    /\ CanRLock(writer)
    /\ readers' = readers + 1
    /\ procs' = At(p, "in")
    /\ UNCHANGED << nodes, children, writer, lpc, lopts, err, before, filled,
                    input, ret, mtree >>

\* The deferred t.Unlock(): Load has replaced the maps, a query has ended.
G_Unlock(p) ==
    /\ procs[p].pc = "in"
    /\ procs[p].op \in G_ExclusiveOps \cup {"Load"}
    /\ IF procs[p].op = "Load"
       THEN \E o \in LoadRun(procs[p].arg, DefaultOptions, nodes, children) :
                nodes' = o.nodes /\ children' = o.children
       ELSE /\ G_Returns(procs[p].op, procs[p].arg)
            /\ UNCHANGED << nodes, children >>
    /\ writer' = "none"
    /\ procs' = Return(p)
    /\ UNCHANGED << readers, lpc, lopts, err, before, filled, input, ret,
                    mtree >>

\* The deferred t.RUnlock().
G_RUnlock(p) ==
    /\ procs[p].pc = "in"
    /\ procs[p].op \in G_SharedOps
    /\ G_Returns(procs[p].op, procs[p].arg)
    /\ readers' = readers - 1
    /\ procs' = Return(p)
    /\ UNCHANGED << nodes, children, writer, lpc, lopts, err, before, filled,
                    input, ret, mtree >>

\* The map-based Load returns before t.Lock().
M_Reject(p) ==
    /\ procs[p].pc = "call"
    /\ procs[p].op = "M_Load"
    /\ validateDataFormat(M_DataOf(procs[p].arg)) # Nil
    /\ procs' = Return(p)
    /\ UNCHANGED << nodes, children, writer, readers, lpc, lopts, err, before,
                    filled, input, ret, mtree >>

\* t.Lock() of the map-based Tree; GetChildren takes it after its RUnlock.
M_Lock(p) ==
    /\ \/ procs[p].pc = "call" /\ procs[p].op \in M_ExclusiveOps
       \/ /\ procs[p].pc = "call"
          /\ procs[p].op = "M_Load"
          /\ validateDataFormat(M_DataOf(procs[p].arg)) = Nil
       \/ procs[p].pc = "miss"
    /\ CanLock(mtree.writer, mtree.readers)
    /\ mtree' = [mtree EXCEPT !.writer = procs[p].op]
    /\ procs' = At(p, IF procs[p].pc = "miss" THEN "fill" ELSE "in")
    /\ UNCHANGED << nodes, children, writer, readers, lpc, lopts, err, before,
                    filled, input, ret >>

M_RLock(p) ==
    /\ procs[p].pc = "call"
    /\ procs[p].op \in M_SharedOps
    /\ CanRLock(mtree.writer)
    /\ mtree' = [mtree EXCEPT !.readers = @ + 1]
    /\ procs' = At(p, "in")
    /\ UNCHANGED << nodes, children, writer, readers, lpc, lopts, err, before,
                    filled, input, ret >>

\* t.RUnlock(): GetAncestors has ended; GetChildren has found the cache
\* entry and returns, or has not and goes on to t.Lock().
M_RUnlock(p) ==
    /\ procs[p].pc = "in"
    /\ procs[p].op \in M_SharedOps
    /\ procs[p].op = "M_GetAncestors" =>
           M_GetAncestors(mtree, procs[p].arg, FALSE).returns
    /\ mtree' = [mtree EXCEPT !.readers = @ - 1]
    /\ procs' = IF /\ procs[p].op = "M_GetChildren"
                   /\ procs[p].arg \notin DOMAIN mtree.cache
                THEN At(p, "miss")
                ELSE Return(p)
    /\ UNCHANGED << nodes, children, writer, readers, lpc, lopts, err, before,
                    filled, input, ret >>

\* The Trees an operation of the map-based Tree can leave as it unlocks.
M_Effect(op, arg) ==
    CASE op = "M_Load" -> {o.tree : o \in M_Load(mtree, M_DataOf(arg))}
      [] op = "M_SetSort" -> {M_SetSort(mtree, "id", TRUE)}
      [] op = "M_ClearCache" -> {M_ClearCache(mtree)}
      [] op = "M_GetChildren" ->
             {M_getChildren(mtree, arg, iter).tree :
                 iter \in Orders(DOMAIN mtree.nodes)}
      [] op = "M_GetDescendants" ->
             {M_GetDescendants(mtree, arg, 1, iter).tree :
                 iter \in Orders(DOMAIN mtree.nodes)}
      [] op = "M_ToTree" ->
             {r.tree : r \in {x \in {M_ToTree(mtree, arg, iter) :
                                        iter \in Orders(DOMAIN mtree.nodes)} :
                                 x.returns}}

\* The deferred t.Unlock() of the map-based Tree.
M_Unlock(p) ==
    /\ \/ procs[p].pc = "in" /\ procs[p].op \in M_ExclusiveOps \cup {"M_Load"}
       \/ procs[p].pc = "fill"
    /\ \E t \in M_Effect(procs[p].op, procs[p].arg) :
          mtree' = [t EXCEPT !.writer = "none"]
    /\ procs' = Return(p)
    /\ UNCHANGED << nodes, children, writer, readers, lpc, lopts, err, before,
                    filled, input, ret >>

NextLock ==
    \E p \in Procs :
        \/ Call(p)
        \/ G_Reject(p)
        \/ G_Lock(p)
        \/ G_RLock(p)
        \/ G_Unlock(p)
        \/ G_RUnlock(p)
        \/ M_Reject(p)
        \/ M_Lock(p)
        \/ M_RLock(p)
        \/ M_Unlock(p)
        \/ M_RUnlock(p)

SpecLock == InitLock /\ [][NextLock]_vars

\* A goroutine inside a call keeps running, and sync.RWMutex lets no
\* blocked Lock or RLock wait forever once the lock is free again and
\* again; nobody is bound to start a call.
FairLock ==
    \A p \in Procs :
        /\ WF_vars(G_Reject(p))
        /\ SF_vars(G_Lock(p))
        /\ SF_vars(G_RLock(p))
        /\ WF_vars(G_Unlock(p))
        /\ WF_vars(G_RUnlock(p))
        /\ WF_vars(M_Reject(p))
        /\ SF_vars(M_Lock(p))
        /\ SF_vars(M_RLock(p))
        /\ WF_vars(M_Unlock(p))
        /\ WF_vars(M_RUnlock(p))

SpecLockFair == SpecLock /\ FairLock

(***************************************************************************)
(* SpecLoadBoth: one call of Load on each variant, with the same records:  *)
(* Load(input.items, input.opts) on a generic Tree that is new or seeded,  *)
(* and Load of the records on a map-based Tree that is new or holds the    *)
(* same chain with a filled cache and SetSort("sort", false).  A caller    *)
(* who passes no extractor to the generic Load is one whose records lack   *)
(* that field.  ret is what the map-based Load returned.                   *)
(***************************************************************************)
BothOptions ==
    {DefaultOptions, Options("nil", "ParentID", "default", TRUE),
     Options("ID", "nil", "default", TRUE)}

M_DataFor(in) ==
    [i \in 1..Len(in.items) |->
        IF in.opts.idFunc = "nil"
        THEN Without(M_DataOf(in.items)[i], "id")
        ELSE IF in.opts.parentIDFunc = "nil"
        THEN Without(M_DataOf(in.items)[i], "parent_id")
        ELSE M_DataOf(in.items)[i]]

\* The map-based Tree after SetSort("sort", false), a Load of the chain and
\* GetChildren(0), GetChildren(1).
M_SeedTree ==
    LET loaded == CHOOSE o \in M_Load(M_SetSort(MapNew, "sort", FALSE),
                                      M_DataOf(SeedItems)) : TRUE
        iter == CHOOSE o \in Orders(DOMAIN loaded.tree.nodes) : TRUE
    IN  M_GetChildren(M_GetChildren(loaded.tree, 0, iter).tree, 1, iter).tree

InitLoadBoth ==
    /\ New \/ Seeded
    /\ input \in [items : Inputs, opts : BothOptions]
    /\ ret = NoRet
    /\ mtree \in {MapNew, M_SeedTree}
    /\ procs = NoProcs

M_LoadInput ==
    /\ ret = NoRet
    /\ \E o \in M_Load(mtree, M_DataFor(input)) :
          /\ mtree' = o.tree
          /\ ret' = M_Ret("Load", 0, o.err)
    /\ UNCHANGED << nodes, children, writer, readers, lpc, lopts, err, before,
                    filled, input, procs >>

NextLoadBoth ==
    \/ LoadInputReject
    \/ LoadInputBegin
    \/ LoadSort
    \/ LoadValidate
    \/ LoadReturn
    \/ M_LoadInput

SpecLoadBoth == InitLoadBoth /\ [][NextLoadBoth]_vars

(***************************************************************************)
(* SpecMapQuery: the same records loaded into a new generic Tree (without  *)
(* comparator) and into a new map-based Tree; then one query of the        *)
(* map-based Tree, in one step, the result in ret.  nodes, children and    *)
(* err are what the generic Load left and returned, mtree what the         *)
(* map-based Load left; ret starts as what the map-based Load returned.    *)
(***************************************************************************)
\* Records with distinct positive ids (forests, dangling parents, cycles),
\* the Quick Start records, and records that the id checks refuse.
BothInputs ==
    QueryInputs \cup {ExampleItems}
    \cup {<< >>,
          << [ID |-> 0, ParentID |-> 0] >>,
          << [ID |-> 1, ParentID |-> -1] >>,
          << [ID |-> 1, ParentID |-> 0], [ID |-> 1, ParentID |-> 0] >>}

InitMapQuery ==
    /\ \E items \in BothInputs :
          /\ input = [items |-> items, opts |-> DefaultOptions]
          /\ \E g \in LoadRun(items, DefaultOptions, EmptyMap, EmptyMap) :
                /\ nodes = g.nodes
                /\ children = g.children
                /\ err = g.err
                /\ filled = IF g.err = Nil THEN "nil"
                            ELSE IF g.nodes = EmptyMap THEN "never"
                            ELSE "error"
          /\ \E m \in M_Load(MapNew, M_DataOf(items)) :
                /\ mtree = m.tree
                /\ ret = M_Ret("Load", 0, m.err)
    /\ writer = "none"
    /\ readers = 0
    /\ lpc = "idle"
    /\ lopts = DefaultOptions
    /\ before = NoSnapshot
    /\ procs = NoProcs

\* Both Loads returned nil, and no query has been asked yet.
BothLoaded == err = Nil /\ ret = M_Ret("Load", 0, Nil)

\* What a query of the map-based Tree returned; arg is its second
\* argument.
M_RetOf(op, id, arg, val) == [op |-> op, id |-> id, arg |-> arg, val |-> val]

M_AskGetChildrenIDs ==
    \E id \in AskIDs, iter \in Orders(DOMAIN mtree.nodes) :
        LET r == M_GetChildrenIDs(mtree, id, iter)
        IN  /\ BothLoaded
            /\ mtree' = r.tree
            /\ ret' = M_RetOf("GetChildrenIDs", id, FALSE, r.val)
            /\ UNCHANGED << nodes, children, writer, readers, lpc, lopts, err,
                            before, filled, input, procs >>

M_AskGetAncestorIDs ==
    \E id \in AskIDs, includeSelf \in BOOLEAN :
        /\ BothLoaded
        /\ ret' = M_RetOf("GetAncestorIDs", id, includeSelf,
                          M_GetAncestorIDs(mtree, id, includeSelf).val)
        /\ UNCHANGED << nodes, children, writer, readers, lpc, lopts, err,
                        before, filled, input, mtree, procs >>

M_AskGetSiblingsIDs ==
    \E id \in AskIDs, includeSelf \in BOOLEAN,
       iter \in Orders(DOMAIN mtree.nodes) :
        LET r == M_GetSiblingsIDs(mtree, id, includeSelf, iter)
        IN  /\ BothLoaded
            /\ mtree' = r.tree
            /\ ret' = M_RetOf("GetSiblingsIDs", id, includeSelf, r.val)
            /\ UNCHANGED << nodes, children, writer, readers, lpc, lopts, err,
                            before, filled, input, procs >>

M_AskGetDescendantsIDs ==
    \E id \in AskIDs, maxDepth \in Depths,
       iter \in Orders(DOMAIN mtree.nodes) :
        LET r == M_GetDescendantsIDs(mtree, id, maxDepth, iter)
        IN  /\ BothLoaded
            /\ mtree' = r.tree
            /\ ret' = M_RetOf("GetDescendantsIDs", id, maxDepth, r.val)
            /\ UNCHANGED << nodes, children, writer, readers, lpc, lopts, err,
                            before, filled, input, procs >>

\* The keys GetAll is asked for: the two structural ones, a data field and
\* one that no record has; the values are ints.
M_Keys == {"id", "parent_id", "sort", "rank"}

M_AskGetAll ==
    \E key \in M_Keys, value \in AskIDs, iter \in Orders(DOMAIN mtree.nodes) :
        /\ BothLoaded
        /\ ret' = M_RetOf("GetAll", 0, [key |-> key, value |-> value],
                          M_GetAll(mtree, key, value, iter))
        /\ UNCHANGED << nodes, children, writer, readers, lpc, lopts, err,
                        before, filled, input, mtree, procs >>

M_AskFormatTreeDisplay ==
    \E id \in AskIDs, iter \in Orders(DOMAIN mtree.nodes) :
        LET r == M_FormatTreeDisplay(mtree, id, M_DefaultFormat, iter)
        IN  /\ BothLoaded
            /\ r.returns
            /\ mtree' = r.tree
            /\ ret' = M_RetOf("FormatTreeDisplay", id, M_DefaultFormat, r.val)
            /\ UNCHANGED << nodes, children, writer, readers, lpc, lopts, err,
                            before, filled, input, procs >>

NextMapQuery ==
    \/ M_AskGetChildrenIDs
    \/ M_AskGetAncestorIDs
    \/ M_AskGetSiblingsIDs
    \/ M_AskGetDescendantsIDs
    \/ M_AskGetAll
    \/ M_AskFormatTreeDisplay

SpecMapQuery == InitMapQuery /\ [][NextMapQuery]_vars


(***************************************************************************)
(* What the queries answer, and what a well-formed index is                *)
(***************************************************************************)
\* Ids to ask about: the virtual root 0 and every id a Load may store.
QueryIDs == 0..Top

\* Everything the queries answer on maps (ns, cs).
View(ns, cs) ==
    [id \in QueryIDs |->
        [find |-> FindNode(ns, id),
         kids |-> GetChildren(cs, id),
         up |-> GetAncestors(ns, id, TRUE),
         down |-> GetDescendants(ns, cs, id, 0),
         side |-> GetSiblings(ns, cs, id, TRUE)]]

\* From id, following parent ids through stored nodes, 0 is met within n
\* steps.
RECURSIVE ReachesRoot(_, _, _)
ReachesRoot(ns, id, n) ==
    IF ns[id].ParentID = 0 THEN TRUE
    ELSE IF n = 0 \/ ns[id].ParentID \notin DOMAIN ns THEN FALSE
    ELSE ReachesRoot(ns, ns[id].ParentID, n - 1)

\* Every stored parent id is 0 or a stored node, and no parent chain cycles.
WellFormedIndex(ns) ==
    \A id \in DOMAIN ns : ReachesRoot(ns, id, Cardinality(DOMAIN ns))

(***************************************************************************)
(* Claims checked under Spec                                               *)
(***************************************************************************)
\* C1: if a Load succeeded and a later Load returns an error, the Tree is as
\* the successful Load left it: every query answers as before the failed
\* call.  The first conjunct is a Load rejected before the lock, the second
\* one that fails under the lock.
C1_FailedLoadKeepsState ==
    [][/\ (lpc = "idle" /\ lpc' = "idle" /\ err' # err /\ filled = "nil")
            => View(nodes', children') = View(nodes, children)
       /\ (lpc = "return" /\ lpc' = "idle" /\ err' # Nil
                /\ before.filled = "nil")
            => View(nodes', children') = View(before.nodes, before.children)
      ]_vars

\* C2: whenever no Load holds the lock, the maps a query reads hold no
\* dangling parent and no cycle (a Load that panicked aside).
C2_NoMalformedStateVisible ==
    (writer = "none" /\ filled # "panic") => WellFormedIndex(nodes)

\* C3: in every state successful and failed Loads lead to, GetAncestors
\* returns after at most N steps and GetDescendants(id, 0) after visiting
\* at most N nodes, N the number of stored nodes.
C3_QueriesBounded ==
    (writer = "none" /\ filled # "panic") =>
        \A id \in QueryIDs :
            LET up == GetAncestors(nodes, id, FALSE)
                down == GetDescendants(nodes, children, id, 0)
                N == Cardinality(DOMAIN nodes)
            IN  /\ up.returns /\ Len(up.val) <= N
                /\ down.returns /\ Len(down.val) <= N

\* The slices of cs list, for each parent id, exactly the nodes of ns with
\* that parent, each once.
CompleteIndex(ns, cs) ==
    /\ \A p \in DOMAIN cs :
          /\ \A i \in 1..Len(cs[p]) : cs[p][i] \in DOMAIN ns
                                        /\ ns[cs[p][i]].ParentID = p
          /\ \A i, j \in 1..Len(cs[p]) : cs[p][i] = cs[p][j] => i = j
    /\ \A id \in DOMAIN ns :
          /\ ns[id].ParentID \in DOMAIN cs
          /\ \E i \in 1..Len(cs[ns[id].ParentID]) : cs[ns[id].ParentID][i] = id

\* No later element of s orders strictly before an earlier one.
SortedBy(ns, opts, s) ==
    \A i, j \in 1..Len(s) :
        i < j => ~sortFunc(opts, ns[s[j]].Data, ns[s[i]].Data)

\* C7: a goroutine inside a query never overlaps a Load that is replacing
\* the maps: while it holds the read lock the maps do not change, and after
\* a successful Load they are the complete, sorted, well-formed result.
C7_QuerySeesOldOrNew ==
    [][(readers > 0 \/ readers' > 0) =>
          /\ lpc = "idle" /\ lpc' = "idle"
          /\ nodes' = nodes /\ children' = children
          /\ filled = "nil" =>
                /\ WellFormedIndex(nodes)
                /\ CompleteIndex(nodes, children)
                /\ \A p \in DOMAIN children :
                      SortedBy(nodes, lopts, children[p])
      ]_vars

\* A reader is inside a query on a Tree a second successful Load filled
\* with siblings.
C7_Witness ==
    /\ readers > 0
    /\ filled = "nil"
    /\ \E p \in DOMAIN children : Len(children[p]) >= 2

(***************************************************************************)
(* Claims checked under SpecLoad                                           *)
(***************************************************************************)
\* Load(input) has returned err.
Returned == lpc = "idle" /\ err # NoCall
\* Load(input) has passed validateTree: it returns, or has returned, nil.
Succeeded == lpc \in {"return", "idle"} /\ err = Nil

ItemID(i) == idFunc(input.opts, input.items[i])
ItemParentID(i) == parentIDFunc(input.items[i])
ItemIDs == {ItemID(i) : i \in 1..Len(input.items)}

NonEmpty == Len(input.items) > 0
FormatOK ==
    \A i \in 1..Len(input.items) : ItemID(i) > 0 /\ ItemParentID(i) >= 0
Distinct ==
    \A i, j \in 1..Len(input.items) : ItemID(i) = ItemID(j) => i = j
ParentsPresent ==
    \A i \in 1..Len(input.items) :
        ItemParentID(i) = 0 \/ ItemParentID(i) \in ItemIDs
\* The parent relation the items describe, as a map from id.
ItemsByID ==
    [id \in ItemIDs |->
        LET i == CHOOSE k \in 1..Len(input.items) : ItemID(k) = id
        IN  [ParentID |-> ItemParentID(i)]]
Acyclic == WellFormedIndex(ItemsByID)

WellFormedInput ==
    NonEmpty /\ FormatOK /\ Distinct /\ ParentsPresent /\ Acyclic

\* C4: with both extractors configured, Load returns nil exactly when the
\* items are non-empty, every id is positive, every parent id non-negative,
\* the ids are distinct, every non-zero parent id is an id of the input and
\* no parent chain cycles.
C4_NilIffWellFormed ==
    Returned => (err = Nil <=> WellFormedInput)

\* C5: a Load that returns nil replaces the whole Tree: the stored ids are
\* exactly the ids of the items, each node carries its item's parent id and
\* payload, there are len(items) nodes, and the children slices list these
\* nodes and nothing an earlier Load stored.
C5_FullReplace ==
    Succeeded =>
        /\ DOMAIN nodes = ItemIDs
        /\ \A i \in 1..Len(input.items) :
              /\ FindNode(nodes, ItemID(i)).found
              /\ FindNode(nodes, ItemID(i)).node =
                    [ID |-> ItemID(i), ParentID |-> ItemParentID(i),
                     Data |-> input.items[i]]
        /\ \A id \in QueryIDs \ ItemIDs : ~FindNode(nodes, id).found
        /\ Cardinality(DOMAIN nodes) = Len(input.items)
        /\ CompleteIndex(nodes, children)

\* A Load about to return nil on a Tree that an earlier successful Load had
\* filled with a node the new items do not hold.
C5_Witness ==
    /\ lpc = "return"
    /\ err = Nil
    /\ before.filled = "nil"
    /\ \E id \in DOMAIN before.nodes : id \notin DOMAIN nodes

\* The kinds of error the first failing check of the documented order gives:
\* empty input, then each item's format, then duplicates, then dangling
\* parents, then cycles.
FirstFailure ==
    IF ~NonEmpty THEN {"empty"}
    ELSE IF ~FormatOK THEN {"id_not_positive", "parent_negative"}
    ELSE IF ~Distinct THEN {"duplicate"}
    ELSE IF ~ParentsPresent THEN {"invalid_parent"}
    ELSE IF ~Acyclic THEN {"circular"}
    ELSE {"nil"}

\* C6: Load reports the first failure in the order empty, format, duplicate,
\* dangling parent, cycle; an input with an ill-formed item and a duplicate
\* id is rejected for its format.
C6_ValidationOrder ==
    (Returned /\ err # Panic) => err.kind \in FirstFailure

\* C8: after a Load without comparator, the children of every node and of
\* the virtual root 0 are in strictly ascending order of node id.
C8_DefaultOrderAscending ==
    (Succeeded /\ input.opts.sortFunc = "default") =>
        \A p \in QueryIDs :
            LET kids == GetChildren(children, p)
            IN  \A i, j \in 1..Len(kids) : i < j => kids[i] < kids[j]

\* C9: after a Load with a comparator, GetChildren(p) holds exactly the
\* nodes whose parent id is p, each once, a node before every node the
\* comparator orders it before; it is empty for a leaf or an unknown id.
C9_ComparatorOrder ==
    (Succeeded /\ input.opts.sortFunc # "default") =>
        \A p \in QueryIDs :
            LET kids == GetChildren(children, p)
                under == {id \in DOMAIN nodes : nodes[id].ParentID = p}
            IN  /\ {kids[i] : i \in 1..Len(kids)} = under
                /\ Len(kids) = Cardinality(under)
                /\ \A i, j \in 1..Len(kids) :
                      sortFunc(input.opts, nodes[kids[i]].Data,
                               nodes[kids[j]].Data) => i < j

\* Load has returned nil having moved the second root in front of the
\* first, as the descending comparator asks; both are leaves.
C9_Witness ==
    /\ Returned /\ err = Nil
    /\ input.opts.sortFunc = "IDDesc"
    /\ Len(input.items) = 2
    /\ ItemID(1) < ItemID(2)
    /\ GetChildren(children, 0) = << ItemID(2), ItemID(1) >>
    /\ \E id \in DOMAIN nodes : GetChildren(children, id) = << >>

(***************************************************************************)
(* Claims checked under SpecQuery                                          *)
(***************************************************************************)
\* C10: for an existing id, GetAncestors(id, false) is parent(id),
\* parent(parent(id)), ... up to a root, each element the parent of the one
\* before it; GetAncestors(id, true) is that sequence behind FindNode(id);
\* GetAncestors(r, false) is empty for a root r.
C10_AncestorChain ==
    (ret.op = "GetAncestors" /\ ret.id \in DOMAIN nodes) =>
        LET chain == IF ret.flag THEN ret.val ELSE << ret.id >> \o ret.val
        IN  /\ ret.returns
            /\ ret.flag => /\ Len(ret.val) >= 1
                           /\ FindNode(nodes, ret.val[1]) = FindNode(nodes, ret.id)
            /\ chain[1] = ret.id
            /\ \A i \in 1..Len(chain) : chain[i] \in DOMAIN nodes
            /\ \A i \in 1..(Len(chain) - 1) :
                  chain[i + 1] = nodes[chain[i]].ParentID
            /\ nodes[chain[Len(chain)]].ParentID = 0
            /\ (nodes[ret.id].ParentID = 0 /\ ~ret.flag) => ret.val = << >>

\* GetAncestors(id, false) has returned a parent and a grandparent.
C10_Witness ==
    /\ ret.op = "GetAncestors"
    /\ ~ret.flag
    /\ Len(ret.val) = 2
    /\ ret.val[1] # ret.val[2]

\* The d-th node above id following parent ids (d = 1 the parent), 0 when the
\* chain is shorter.
RECURSIVE AncestorAt(_, _, _)
AncestorAt(ns, id, d) ==
    IF id \notin DOMAIN ns \/ ns[id].ParentID \notin DOMAIN ns THEN 0
    ELSE IF d = 1 THEN ns[id].ParentID
    ELSE AncestorAt(ns, ns[id].ParentID, d - 1)

\* The number of nodes above id.
ChainLength(ns, id) ==
    Cardinality({d \in 1..Cardinality(DOMAIN ns) : AncestorAt(ns, id, d) # 0})

\* C11: with a1 (the parent), ..., ak (the root) the nodes above id,
\* GetAncestorIDAtDepth(id, d, false) is a_d, GetAncestorIDAtDepth(id, d,
\* true) is a_(k-d+1), and both are 0 when d <= 0, d > k or k = 0.
C11_AncestorAtDepth ==
    ret.op = "GetAncestorIDAtDepth" =>
        LET k == ChainLength(nodes, ret.id)
        IN  /\ ret.returns
            /\ ret.val = IF ret.depth <= 0 \/ ret.depth > k THEN 0
                         ELSE IF ret.flag
                         THEN AncestorAt(nodes, ret.id, k - ret.depth + 1)
                         ELSE AncestorAt(nodes, ret.id, ret.depth)

\* The ids of the nodes above n.
ChainIDs(ns, n) ==
    {AncestorAt(ns, n, d) : d \in 1..Cardinality(DOMAIN ns)} \ {0}

Range(s) == {s[i] : i \in 1..Len(s)}
NoRepeat(s) == \A i, j \in 1..Len(s) : s[i] = s[j] => i = j

\* The nodes reached from id by following children links.
RECURSIVE ReachableFrom(_, _)
ReachableFrom(cs, id) ==
    Range(Get(cs, id)) \cup UNION {ReachableFrom(cs, k) : k \in Range(Get(cs, id))}

\* C12 as stated: for every id, GetDescendants(id, 0) holds, each once, the
\* nodes reachable from id by children links, and as many nodes as have id
\* in their ancestor chain.
C12_DescendantsAll ==
    (ret.op = "GetDescendants" /\ ret.depth = 0) =>
        /\ ret.returns
        /\ Range(ret.val) = ReachableFrom(children, ret.id)
        /\ NoRepeat(ret.val)
        /\ Len(ret.val) =
              Cardinality({n \in DOMAIN nodes : ret.id \in ChainIDs(nodes, n)})

\* C12 amended: for every id, GetDescendants(id, 0) holds, each once, the
\* nodes reachable from id by children links; for id # 0 these are as many
\* as the nodes with id in their ancestor chain, and for the virtual root 0,
\* which is in no chain, they are all stored nodes.
C12_DescendantsAllAmended ==
    (ret.op = "GetDescendants" /\ ret.depth = 0) =>
        /\ ret.returns
        /\ Range(ret.val) = ReachableFrom(children, ret.id)
        /\ NoRepeat(ret.val)
        /\ Len(ret.val) =
              IF ret.id = 0 THEN Cardinality(DOMAIN nodes)
              ELSE Cardinality({n \in DOMAIN nodes :
                                   ret.id \in ChainIDs(nodes, n)})

\* GetDescendants(id, 0) has returned a child and a grandchild of a node.
C12_Witness ==
    /\ ret.op = "GetDescendants" /\ ret.depth = 0
    /\ ret.id \in DOMAIN nodes
    /\ Len(ret.val) = 2
    /\ nodes[ret.val[2]].ParentID = ret.val[1]

\* The number of parent steps from n up to id (up to the virtual root when
\* id is 0); 0 when n is not below id.
LevelBelow(ns, id, n) ==
    IF id = 0 THEN ChainLength(ns, n) + 1
    ELSE IF \E d \in 1..Cardinality(DOMAIN ns) : AncestorAt(ns, n, d) = id
    THEN CHOOSE d \in 1..Cardinality(DOMAIN ns) : AncestorAt(ns, n, d) = id
    ELSE 0

\* C13: GetDescendants(id, maxDepth) with maxDepth > 0 holds exactly the
\* nodes 1 to maxDepth levels below id, with maxDepth = 0 every node below
\* id, and with maxDepth < 0 nothing.
C13_DescendantsDepth ==
    ret.op = "GetDescendants" =>
        /\ ret.returns
        /\ IF ret.depth < 0 THEN ret.val = << >>
           ELSE /\ NoRepeat(ret.val)
                /\ Range(ret.val) =
                      {n \in DOMAIN nodes :
                          /\ LevelBelow(nodes, ret.id, n) >= 1
                          /\ ret.depth = 0
                                \/ LevelBelow(nodes, ret.id, n) <= ret.depth}

\* GetDescendants(id, 1) has returned the children of a node and left a
\* grandchild out.
C13_Witness ==
    /\ ret.op = "GetDescendants" /\ ret.depth = 1
    /\ ret.id \in DOMAIN nodes
    /\ \E n \in DOMAIN nodes :
          n \notin Range(ret.val) /\ nodes[n].ParentID \in Range(ret.val)

\* The results of GetDescendants for kids[i], kids[i+1], ..., one after the
\* other, with the depth that remains below a child.
RECURSIVE DescendantsOfChildren(_, _, _)
DescendantsOfChildren(kids, i, maxDepth) ==
    IF i > Len(kids) THEN << >>
    ELSE (IF maxDepth = 1 THEN << >>
          ELSE GetDescendants(nodes, children, kids[i],
                   IF maxDepth = 0 THEN 0 ELSE maxDepth - 1).val)
         \o DescendantsOfChildren(kids, i + 1, maxDepth)

C15_PreOrder ==
    (ret.op = "GetDescendants" /\ ret.depth >= 0) =>
        ret.val = PreOrderBelow(children, ret.id, ret.depth)

\* C16: for an existing node c with parent id p, GetSiblings(c, true) is
\* GetChildren(p); GetSiblings(c, false) is GetChildren(p) without c, the
\* others in the same order; GetSiblings of an unknown id is empty.
C16_Siblings ==
    ret.op = "GetSiblings" =>
        IF ~FindNode(nodes, ret.id).found THEN ret.val = << >>
        ELSE LET kids == GetChildren(children,
                                     FindNode(nodes, ret.id).node.ParentID)
             IN  IF ret.flag THEN ret.val = kids
                 ELSE \E i \in 1..Len(kids) :
                         /\ kids[i] = ret.id
                         /\ ret.val = SubSeq(kids, 1, i - 1)
                                      \o SubSeq(kids, i + 1, Len(kids))

\* GetSiblings(c, false) has returned the sibling before c and the one
\* after it.
C16_Witness ==
    /\ ret.op = "GetSiblings" /\ ~ret.flag
    /\ Len(ret.val) = 2
    /\ \E i \in 2..(Len(GetChildren(children, nodes[ret.id].ParentID)) - 1) :
          GetChildren(children, nodes[ret.id].ParentID)[i] = ret.id

\* Some node of the nested structure t is a Node the Index stores.
RECURSIVE AnyLive(_)
AnyLive(t) == t.live \/ \E i \in 1..Len(t.Children) : AnyLive(t.Children[i])

\* C17: no node of the structure ToTree returns (root, inner node or leaf,
\* a root without children included) is a node object stored in the Index.
C17_ToTreeNoAlias ==
    (ret.op = "ToTree" /\ ret.val # NoTree) => ~AnyLive(ret.val)

\* Every node of t carries its stored parent id and payload, and its
\* Children are its GetChildren, in that order.
RECURSIVE ChildrenMatch(_)
ChildrenMatch(t) ==
    /\ FindNode(nodes, t.ID).found
    /\ t.ParentID = FindNode(nodes, t.ID).node.ParentID
    /\ t.Data = FindNode(nodes, t.ID).node.Data
    /\ [i \in 1..Len(t.Children) |-> t.Children[i].ID]
          = GetChildren(children, t.ID)
    /\ \A i \in 1..Len(t.Children) : ChildrenMatch(t.Children[i])

\* The ids of t visited node first, then the Children in order.
RECURSIVE PreOrderWalk(_)
RECURSIVE PreOrderWalkEach(_, _)
PreOrderWalk(t) == << t.ID >> \o PreOrderWalkEach(t.Children, 1)
PreOrderWalkEach(ts, i) ==
    IF i > Len(ts) THEN << >>
    ELSE PreOrderWalk(ts[i]) \o PreOrderWalkEach(ts, i + 1)

\* C18: for an existing rootId every node of ToTree(rootId) has as Children
\* its GetChildren in the same order, and a pre-order walk visits, each id
\* once, GetDescendantsIDs(rootId, 0) and rootId; for an absent rootId
\* ToTree returns nil.
C18_ToTreeRoundTrip ==
    ret.op = "ToTree" =>
        /\ ret.returns
        /\ IF ~FindNode(nodes, ret.id).found THEN ret.val = NoTree
           ELSE /\ ret.val.ID = ret.id
                /\ ChildrenMatch(ret.val)
                /\ NoRepeat(PreOrderWalk(ret.val))
                /\ Range(PreOrderWalk(ret.val)) =
                      Range(GetDescendantsIDs(nodes, children, ret.id, 0).val)
                      \cup {ret.id}

\* ToTree has returned a root with a child that has a child.
C18_Witness ==
    /\ ret.op = "ToTree"
    /\ Len(ret.val.Children) >= 1
    /\ Len(ret.val.Children[1].Children) >= 1

\* The DisplayNames of the entries, in order.
Labels(entries) == [i \in 1..Len(entries) |-> entries[i].DisplayName]

\* C19: on the Quick Start records, FormatTreeDisplay of root 1 with the
\* default icons and indent " " gives the labels "Root", " + <2>",
\* " | + <4>", " | L <5>", " L <3>", "   L <6>", the last one beginning with
\* three spaces.
C19_QuickStartLabels ==
    (/\ ret.op = "FormatTreeDisplay"
     /\ ret.id = 1
     /\ ret.opt = TitleFormatOption
     /\ nodes = (CHOOSE t \in ExampleTrees : TRUE).nodes) =>
        Labels(ret.val) =
            << "Root", " + <2>", " | + <4>", " | L <5>", " L <3>", "   L <6>" >>

\* n is the last of its parent's children.
IsLastSibling(n) ==
    LET kids == GetChildren(children, nodes[n].ParentID)
    IN  kids[Len(kids)] = n

\* P(n) for a node n below root: the indent unit for the root's children,
\* and for the children of c the prefix of c, the continuation icon unless
\* c is the last sibling, and the indent unit.
RECURSIVE PrefixOf(_, _, _)
PrefixOf(n, root, opt) ==
    IF nodes[n].ParentID = root THEN opt.Indent
    ELSE PrefixOf(nodes[n].ParentID, root, opt)
         \o (IF IsLastSibling(nodes[n].ParentID) THEN "" ELSE opt.Icons[1])
         \o opt.Indent

C21_ExtractionFailureKeepsEntries ==
    (/\ ret.op = "FormatTreeDisplay"
     /\ FindNode(nodes, ret.id).found
     /\ ~DisplayValue(nodes[ret.id].Data,
                      WithDefaults(ret.opt).DisplayField).ok)
    =>
        LET good == FormatTreeDisplay(nodes, children, ret.id,
                                      TitleFormatOption).val
        IN  /\ ret.returns
            /\ [i \in 1..Len(ret.val) |-> ret.val[i].ID]
                   = [i \in 1..Len(good) |-> good[i].ID]
            /\ \A i \in 1..Len(ret.val) :
                  ret.val[i].DisplayName \o Title(nodes[good[i].ID].Data)
                      = good[i].DisplayName

\* What each lookup returns for an id that is not in the Index: not found,
\* an empty slice, a nil tree.
AbsentResult ==
    /\ ret.returns
    /\ ret.op \in {"FindNode", "GetParent"} => ret.val = NotFound
    /\ ret.op = "GetParentID" => ret.val = [id |-> 0, ok |-> FALSE]
    /\ ret.op \in {"GetChildren", "GetAncestors", "GetDescendants",
                   "GetSiblings"} => ret.val = << >>
    /\ ret.op = "ToTree" => ret.val = NoTree

\* What GetParent and GetParentID return for a node of the Index.
ParentResult ==
    /\ ret.op = "GetParent" =>
          ret.val = IF nodes[ret.id].ParentID = 0 THEN NotFound
                    ELSE Found(nodes[nodes[ret.id].ParentID])
    /\ (ret.op = "GetParent" /\ ret.val.found) =>
          ret.val.node.ID = nodes[ret.id].ParentID
    /\ (ret.op = "GetParentID" /\ nodes[ret.id].ParentID = 0) =>
          ret.val = [id |-> 0, ok |-> TRUE]

LookupOps ==
    {"FindNode", "GetParent", "GetParentID", "GetChildren", "GetAncestors",
     "GetDescendants", "GetSiblings", "ToTree"}

\* C22: for an id that is not in the Index every lookup reports absence
\* (not found, empty, nil); for a root GetParent is (nil, false) and
\* GetParentID (0, true); for another node GetParent is the node whose id is
\* its parentId.
C22_LookupsOfAbsentIDs ==
    ret.op \in LookupOps =>
        IF ret.id \in DOMAIN nodes THEN ParentResult ELSE AbsentResult

\* C22 with the virtual root 0 set apart: GetChildren(0) is the roots and
\* GetDescendants(0, d) what lies below them.
C22_LookupsOfAbsentIDsAmended ==
    ret.op \in LookupOps =>
        IF ret.id \in DOMAIN nodes THEN ParentResult
        ELSE IF ret.id = 0 /\ ret.op \in {"GetChildren", "GetDescendants"}
        THEN /\ ret.returns
             /\ ret.op = "GetChildren" =>
                   /\ Range(ret.val) = {n \in DOMAIN nodes :
                                            nodes[n].ParentID = 0}
                   /\ NoRepeat(ret.val)
             /\ (ret.op = "GetDescendants" /\ ret.depth = 0) =>
                   /\ Range(ret.val) = DOMAIN nodes
                   /\ NoRepeat(ret.val)
             /\ (ret.op = "GetDescendants" /\ ret.depth < 0) =>
                   ret.val = << >>
        ELSE AbsentResult

\* GetParent was asked for an id above every stored one, on an Index that
\* holds nodes.
C22_Witness ==
    /\ ret.op = "GetParent"
    /\ ret.id # 0
    /\ ret.id \notin DOMAIN nodes
    /\ DOMAIN nodes # {}

\* The value getChildren compares for a node under the current settings:
\* the id, or the sort field if every node of the slice has it.
SortKey(t, s, n) ==
    IF t.sortField = "id" THEN n
    ELSE IF \A i \in 1..Len(s) : t.sortField \in DOMAIN t.nodes[s[i]].Data
    THEN t.nodes[n].Data[t.sortField]
    ELSE n

\* The slice s is in the order of sortField and sortAsc.
OrderedBySort(t, s) ==
    \A i, j \in 1..Len(s) :
        i < j => IF t.sortAsc THEN SortKey(t, s, s[i]) <= SortKey(t, s, s[j])
                 ELSE SortKey(t, s, s[i]) >= SortKey(t, s, s[j])

\* Every cache entry holds the stored children of its key, once each, in
\* the current order.
CacheFresh ==
    \A p \in DOMAIN mtree.cache :
        /\ Range(mtree.cache[p]) =
               {n \in DOMAIN mtree.nodes : mtree.nodes[n].ParentID = p}
        /\ NoRepeat(mtree.cache[p])
        /\ OrderedBySort(mtree, mtree.cache[p])

\* The errors Load returns before it takes the lock.
FormatKinds ==
    {"empty", "missing_id", "missing_parent_id", "id_not_positive",
     "parent_negative"}

\* A step of a Load that took the lock, and a step of SetSort that changed
\* the settings.
LoadLockedStep ==
    /\ ret'.op = "Load"
    /\ ret'.val.kind \notin FormatKinds
    /\ \/ ret.op # "Load"
       \/ ret'.val # ret.val
       \/ mtree'.nodes # mtree.nodes
SetSortStep ==
    mtree'.sortField # mtree.sortField \/ mtree'.sortAsc # mtree.sortAsc

\* C23: in the map-based Tree no cache entry is ever stale: in every state
\* that Load, SetSort, ClearCache and the cache-filling queries reach, each
\* cache[p] holds exactly the stored nodes with ParentID p, in the order of
\* the current sortField and sortAsc; a Load past its format check and a
\* SetSort leave the cache empty.
C23_CacheNeverStale ==
    /\ []CacheFresh
    /\ [][(LoadLockedStep \/ SetSortStep) => mtree'.cache = EmptyMap]_vars

\* After a Load replaced the nodes and SetSort changed the order, a cache
\* entry holds two children that the field sort tells apart.
C23_Witness ==
    /\ mtree.sortField = "sort"
    /\ ~mtree.sortAsc
    /\ \E p \in DOMAIN mtree.cache :
          /\ Len(mtree.cache[p]) = 2
          /\ mtree.nodes[mtree.cache[p][1]].Data.sort
                 > mtree.nodes[mtree.cache[p][2]].Data.sort

\* C24: in the map-based Tree the children of a parent have one order:
\* with no Load and no SetSort in between, a GetChildren(p) returns the ids
\* the GetChildren(p) before it returned, whether or not ClearCache was
\* called and whether or not children tie on the sort field.
C24_ChildrenOrderFixed ==
    [][(/\ ret.op = "GetChildren"
        /\ ret'.op = "GetChildren"
        /\ ret'.id = ret.id) => ret'.val = ret.val]_vars

\* The loaded record with this id.
RecordOf(id) ==
    LET data == M_DataOf(input.items)
    IN  data[CHOOSE i \in 1..Len(data) : data[i].id = id]

\* C26: in the map-based Tree GetAll(key, value) returns the nodes whose
\* loaded record has the value under the key, for every key of the record,
\* id and parent_id included: GetAll("parent_id", 1) is the children of
\* node 1.
C26_GetAllAnyKey ==
    ret.op = "GetAll" =>
        /\ Range(ret.val) =
               {n \in DOMAIN mtree.nodes :
                   /\ ret.arg.key \in DOMAIN RecordOf(n)
                   /\ RecordOf(n)[ret.arg.key] = ret.arg.value}
        /\ NoRepeat(ret.val)

\* C27: in the map-based Tree FormatTreeDisplay(rootID) of an existing
\* rootID returns the node rootID first, with its bare display field, and
\* after it the descendants, each behind a branch icon.
C27_MapFormatRootFirst ==
    (ret.op = "FormatTreeDisplay" /\ ret.id \in DOMAIN mtree.nodes) =>
        /\ Len(ret.val) >= 1
        /\ ret.val[1] = FormattedNode(ret.id, mtree.nodes[ret.id].Data.title)
        /\ \A i \in 2..Len(ret.val) :
              \E prefix \in {" ", "  ", " | ", "   ", " |  ", "  | ", " | | "} :
                  \E icon \in {"+ ", "L "} :
                      ret.val[i].DisplayName =
                          prefix \o icon
                          \o mtree.nodes[ret.val[i].ID].Data.title

\* C28: the generic Tree and the map-based Tree accept the same records,
\* and on records both accept GetChildrenIDs, GetAncestorIDs,
\* GetSiblingsIDs and GetDescendantsIDs return the same ids from both, for
\* every id, includeSelf and maxDepth, maxDepth 0 included.
C28_VariantsAgree ==
    /\ ret.op = "Load" => (err = Nil <=> ret.val = Nil)
    /\ ret.op = "GetChildrenIDs" => ret.val = GetChildren(children, ret.id)
    /\ ret.op = "GetAncestorIDs" =>
          ret.val = GetAncestorIDs(nodes, ret.id, ret.arg).val
    /\ ret.op = "GetSiblingsIDs" =>
          ret.val = GetSiblings(nodes, children, ret.id, ret.arg)
    /\ ret.op = "GetDescendantsIDs" =>
          ret.val = GetDescendantsIDs(nodes, children, ret.id, ret.arg).val

\* The errors the generic Load returns for a missing extractor, empty
\* input, a non-positive id and a negative parentId.
PreLockKinds ==
    {"id_func_required", "parent_id_func_required", "empty",
     "id_not_positive", "parent_negative"}

\* C29: a Load refused for a missing extractor (a missing field), empty
\* input, a non-positive id or a negative parentId returns without taking
\* the lock and leaves the Tree as it was: nodes and children in the
\* generic Tree; nodes, cache and sort settings in the map-based one.
C29_RejectedLoadChangesNothing ==
    [][/\ (err' # err /\ err'.kind \in PreLockKinds) =>
              /\ writer = "none" /\ writer' = "none"
              /\ nodes' = nodes
              /\ children' = children
       /\ (ret' # ret /\ ret'.val.kind \in FormatKinds) =>
              /\ writer = "none" /\ writer' = "none"
              /\ mtree' = mtree]_vars

\* Both Loads have refused the records, on Trees that held the chain (and,
\* in the map-based one, cache entries and a sort field of the caller).
C29_Witness ==
    /\ err.kind \in PreLockKinds
    /\ nodes = SeedTree.nodes
    /\ ret.op = "Load"
    /\ ret.val.kind \in FormatKinds
    /\ mtree = M_SeedTree
    /\ mtree.cache # EmptyMap

\* C25: in the generic Tree every query takes the lock in shared mode:
\* only Load ever holds it exclusively, so no query keeps another query
\* out of its critical section.
C25_QueriesShareTheLock == writer \in {"none", "Load"}

\* The goroutines holding each mutex are the ones the mutex counts.
LockAccounts ==
    /\ readers = Cardinality({p \in Procs : /\ procs[p].pc = "in"
                                            /\ procs[p].op \in G_SharedOps})
    /\ writer # "none" <=>
          \E p \in Procs : /\ procs[p].pc = "in"
                           /\ procs[p].op \in G_ExclusiveOps \cup {"Load"}
    /\ mtree.readers =
          Cardinality({p \in Procs : /\ procs[p].pc = "in"
                                     /\ procs[p].op \in M_SharedOps})
    /\ mtree.writer # "none" <=>
          \E p \in Procs :
              \/ procs[p].pc = "fill"
              \/ /\ procs[p].pc = "in"
                 /\ procs[p].op \in M_ExclusiveOps \cup {"M_Load"}

====
